---- MODULE Spec2Model ----
(***************************************************************************)
(* Focus-session lifecycle of the student tool kit server                  *)
(* (subject/services/study-session.service.ts, focus-session part).        *)
(* Time is counted in ticks; TicksPerMinute ticks make one minute, so that *)
(* Math.round(ms / 60000) has fractional inputs to round.                  *)
(***************************************************************************)
EXTENDS Integers, Sequences, FiniteSets, Bags, TLC

\* ---------------------------------------------------------------- bounds
TicksPerMinute == 2
MaxTime == 40
FineTime == 3
MaxDay == 2
MaxCalls == 2

\* ------------------------------------------------------- optional values
\* a nullable column / optional payload key: <<>> (null, undefined) or <<v>>
NULL == <<>>
Some(v) == <<v>>
Val(x) == x[1]
Opt(S) == {NULL} \cup {Some(v) : v \in S}

\* ------------------------------------------------------------ vocabulary
SessionStatus == {"ACTIVE", "PAUSED", "COMPLETED", "CANCELLED"}
Users == {"u1", "u2"}
SessionIds == {"s1"}
Procs == {"p1", "p2"}
HabitIds == {"h1"}

VARIABLES
  focusSession,  \* the focusSession table: session id -> row
  now,           \* the clock read by new Date(), in ticks
  result,        \* the status code of the last HTTP response
  hist,          \* per session: the pause intervals the callers produced
  procs,         \* concurrent pauseFocusSession calls between read and write
  focusHabit,        \* the focusHabit table: habit id -> row
  focusHabitSession, \* the focusHabitSession table: a bag of rows
  logs,              \* concurrent logHabitSession calls between their awaits
  args,              \* the arguments of the analytics function being called
  ret,               \* what that function returned
  streakEntry,       \* the streakEntry table: day -> row
  learningStreak,    \* the learningStreak row of the streak
  studySession,      \* the studySession table: session id -> row
  subject,           \* the subject table: subject id -> row
  quizSessions       \* the in-memory quizSessions map: session id -> session

sessionVars == <<focusSession, hist, procs>>
habitVars == <<focusHabit, focusHabitSession, logs>>
callVars == <<args, ret>>
learningVars == <<streakEntry, learningStreak>>
studyVars == <<studySession, subject>>
otherVars == <<args, ret, streakEntry, learningStreak, studySession, subject,
               quizSessions>>
vars == <<focusSession, now, result, hist, procs,
          focusHabit, focusHabitSession, logs,
          args, ret, streakEntry, learningStreak, studySession, subject,
          quizSessions>>

\* ---------------------------------------------------------------- helpers
\* Math.round(ticks / TicksPerMinute): nearest minute, halves round up
Round(t) == (2 * t + TicksPerMinute) \div (2 * TicksPerMinute)

\* toISOString() and new Date(iso): the string carries the instant
ToISOString(t) == [iso |-> t]
ParseDate(s) == s.iso

\* ============================================= numbers (IEEE 754 binary64)
\* JavaScript numbers are doubles. A natural number of any size is a sequence
\* of limbs in base LimbBase, least significant first, <<>> for zero.
\* CHOOSE r \in {f(v) : v \in {expr}} : TRUE is f(expr) with expr computed
\* once, before f, as a statement computes its operands before it runs.
LimbBase == 32768
LimbBits == 15

Limb(a, i) == IF i \in DOMAIN a THEN a[i] ELSE 0

\* a without its leading zero limbs
Trimmed(a) ==
  SubSeq(a, 1, CHOOSE n \in 0 .. Len(a) :
                 /\ n = 0 \/ a[n] # 0
                 /\ \A j \in (n + 1) .. Len(a) : a[j] = 0)
NatTrim(a) == CHOOSE r \in {Trimmed(v) : v \in {a}} : TRUE

\* 0 <= n < 2^31 as limbs, and back
NatOf(n) ==
  NatTrim(<<n % LimbBase, (n \div LimbBase) % LimbBase,
            n \div (LimbBase * LimbBase)>>)
NatToInt(a) ==
  CHOOSE r \in {Limb(v, 1) + LimbBase * Limb(v, 2)
                  + LimbBase * LimbBase * Limb(v, 3) : v \in {a}} : TRUE

\* the carry into limb i of a + b: a limb below overflows, and every limb
\* between it and i is full
CarryInto(a, b, i) ==
  \E j \in 1 .. (i - 1) :
    /\ Limb(a, j) + Limb(b, j) >= LimbBase
    /\ \A k \in (j + 1) .. (i - 1) : Limb(a, k) + Limb(b, k) = LimbBase - 1
Summed(a, b) ==
  [i \in 1 .. (IF Len(a) >= Len(b) THEN Len(a) ELSE Len(b)) + 1 |->
     (Limb(a, i) + Limb(b, i) + IF CarryInto(a, b, i) THEN 1 ELSE 0)
       % LimbBase]
NatAdd(a, b) == CHOOSE r \in {NatTrim(Summed(x, y)) : x \in {a}, y \in {b}} : TRUE

\* -1, 0, 1 as a < b, a = b, a > b
Compared(a, b) ==
  IF Len(a) < Len(b) THEN -1
  ELSE IF Len(a) > Len(b) THEN 1
  ELSE IF a = b THEN 0
  ELSE IF \E j \in 1 .. Len(a) :
            a[j] < b[j] /\ \A k \in (j + 1) .. Len(a) : a[k] = b[k]
    THEN -1
  ELSE 1
NatCmp(a, b) == CHOOSE r \in {Compared(x, y) : x \in {a}, y \in {b}} : TRUE

\* a - b for a >= b: the borrow into limb i is taken when a is below b in
\* the limbs under i
BorrowInto(a, b, i) ==
  \E j \in 1 .. (i - 1) :
    /\ Limb(a, j) < Limb(b, j)
    /\ \A k \in (j + 1) .. (i - 1) : Limb(a, k) = Limb(b, k)
Subtracted(a, b) ==
  [i \in 1 .. Len(a) |->
     (Limb(a, i) - Limb(b, i) - (IF BorrowInto(a, b, i) THEN 1 ELSE 0)
        + LimbBase) % LimbBase]
NatSub(a, b) ==
  CHOOSE r \in {NatTrim(Subtracted(x, y)) : x \in {a}, y \in {b}} : TRUE

\* a * c for 0 <= c < LimbBase: the low halves of the limb products plus
\* their high halves one limb up
Scaled(a, c) ==
  NatAdd([i \in 1 .. Len(a) |-> (a[i] * c) % LimbBase],
         <<0>> \o [i \in 1 .. Len(a) |-> (a[i] * c) \div LimbBase])
NatMulSmall(a, c) == CHOOSE r \in {Scaled(x, y) : x \in {a}, y \in {c}} : TRUE

\* quotient and remainder of a by d, 0 < d < LimbBase, from the top limb down
\* to limb i, with the remainder rem and the quotient limbs q so far
RECURSIVE NatDivFrom(_, _, _, _, _)
NatDivFrom(a, d, i, rem, q) ==
  IF i = 0 THEN [q |-> NatTrim(q), r |-> rem]
  ELSE CHOOSE r \in {NatDivFrom(a, d, i - 1, t % d, <<t \div d>> \o q) :
                       t \in {rem * LimbBase + a[i]}} : TRUE
NatDivSmall(a, d) ==
  CHOOSE r \in {NatDivFrom(x, d, Len(x), 0, <<>>) : x \in {a}} : TRUE

IntBits(n) ==
  CHOOSE k \in 0 .. LimbBits : n < 2^k /\ (k = 0 \/ n >= 2^(k - 1))
NatBits(a) ==
  IF a = <<>> THEN 0 ELSE LimbBits * (Len(a) - 1) + IntBits(a[Len(a)])

\* a * 2^k
NatShl(a, k) ==
  IF a = <<>> THEN <<>>
  ELSE [i \in 1 .. k \div LimbBits |-> 0] \o NatMulSmall(a, 2^(k % LimbBits))

\* floor(a / 2^k), and whether bits were shifted out: limbs whole limbs and
\* then s bits are dropped
ShiftedRight(a, limbs, s) ==
  [q |-> NatTrim([i \in 1 .. Len(a) - limbs |->
                    (a[i + limbs] \div 2^s)
                      + (Limb(a, i + limbs + 1) % 2^s) * 2^(LimbBits - s)]),
   sticky |-> \/ \E i \in 1 .. Len(a) : i <= limbs /\ a[i] # 0
              \/ Limb(a, limbs + 1) % 2^s # 0]
NatShr(a, k) ==
  CHOOSE r \in {ShiftedRight(x, k \div LimbBits, k % LimbBits) : x \in {a}} :
    TRUE

\* a double: m * 2^e, negated when neg, with m of MantissaBits bits, or 0
MantissaBits == 53
DoubleZero == [neg |-> FALSE, m |-> <<>>, e |-> 0]

\* the double, not negative, nearest to (n + f) * 2^e, 0 <= f < 1 and f > 0 iff sticky, ties
\* to the even mantissa; with sticky set n has more than MantissaBits bits
Normalized(m, e) ==
  IF NatBits(m) > MantissaBits
    THEN [neg |-> FALSE, m |-> NatShr(m, 1).q, e |-> e + 1]
    ELSE [neg |-> FALSE, m |-> m, e |-> e]
RoundCut(cut, e, sticky) ==
  IF cut.q[1] % 2 = 1 /\ (cut.sticky \/ sticky \/ (cut.q[1] \div 2) % 2 = 1)
    THEN CHOOSE r \in {Normalized(m, e) :
                         m \in {NatAdd(NatShr(cut.q, 1).q, <<1>>)}} : TRUE
    ELSE Normalized(NatShr(cut.q, 1).q, e)
RoundNat(n, e, sticky) ==
  IF n = <<>> THEN DoubleZero
  ELSE IF NatBits(n) <= MantissaBits
    THEN [neg |-> FALSE, m |-> NatShl(n, MantissaBits - NatBits(n)),
          e |-> e + NatBits(n) - MantissaBits]
  ELSE CHOOSE r \in {RoundCut(cut, e + NatBits(n) - MantissaBits, sticky) :
                       cut \in {NatShr(n, NatBits(n) - MantissaBits - 1)}} :
         TRUE
RoundToDouble(n, e, sticky) ==
  CHOOSE r \in {RoundNat(v, e, sticky) : v \in {n}} : TRUE

\* an integer 0 <= n < 2^31 as a double
DoubleOf(n) == RoundToDouble(NatOf(n), 0, FALSE)

\* a * b, limb j of b and those above it
RECURSIVE NatMulFrom(_, _, _)
NatMulFrom(a, b, j) ==
  IF j > Len(b) THEN <<>>
  ELSE NatAdd(NatMulSmall(a, b[j]), <<0>> \o NatMulFrom(a, b, j + 1))
NatMul(a, b) == IF a = <<>> THEN <<>> ELSE NatMulFrom(a, b, 1)

\* the largest digit d < LimbBase with b * d <= r, found bit by bit
RECURSIVE NatDivDigit(_, _, _, _)
NatDivDigit(r, b, k, d) ==
  IF k < 0 THEN d
  ELSE IF NatCmp(NatMulSmall(b, d + 2^k), r) <= 0
    THEN NatDivDigit(r, b, k - 1, d + 2^k)
  ELSE NatDivDigit(r, b, k - 1, d)

\* the next quotient digit for the running remainder r2, put before the
\* quotient limbs q, and what is left of r2
NatDivStep(r2, b, q) ==
  CHOOSE r \in {[q |-> <<d>> \o q, r |-> NatSub(r2, NatMulSmall(b, d))] :
                  d \in {NatDivDigit(r2, b, LimbBits - 1, 0)}} : TRUE

\* quotient and remainder of a by b > 0, limb by limb from limb i of a down,
\* with the remainder rem < b and the quotient limbs q so far
RECURSIVE NatDivLimbs(_, _, _, _, _)
NatDivLimbs(a, b, i, rem, q) ==
  IF i = 0 THEN [q |-> NatTrim(q), r |-> rem]
  ELSE CHOOSE r \in {NatDivLimbs(a, b, i - 1, step.r, step.q) :
                       step \in {NatDivStep(NatTrim(<<a[i]>> \o rem), b, q)}} :
         TRUE
NatDivMod(a, b) ==
  IF Len(a) < Len(b) THEN [q |-> <<>>, r |-> a]
  ELSE NatDivLimbs(a, b, Len(a) - Len(b) + 1,
                   SubSeq(a, Len(a) - Len(b) + 2, Len(a)), <<>>)

Negated(x) == IF x.m = <<>> THEN x ELSE [x EXCEPT !.neg = ~x.neg]
DoubleNeg(x) == CHOOSE r \in {Negated(v) : v \in {x}} : TRUE
DoubleAbs(x) == [x EXCEPT !.neg = FALSE]
WithSign(neg, x) == IF neg THEN DoubleNeg(x) ELSE x

\* an integer as a double, |n| < 2^31
DoubleOfInt(n) == IF n < 0 THEN DoubleNeg(DoubleOf(-n)) ELSE DoubleOf(n)

\* a * 2^e + b * 2^e, each negated as its sign tells
AddAligned(aneg, a, bneg, b, e) ==
  IF aneg = bneg THEN WithSign(aneg, RoundToDouble(NatAdd(a, b), e, FALSE))
  ELSE IF NatCmp(a, b) >= 0
    THEN WithSign(aneg, RoundToDouble(NatSub(a, b), e, FALSE))
  ELSE WithSign(bneg, RoundToDouble(NatSub(b, a), e, FALSE))

\* x + y
Added(x, y) ==
  IF x.m = <<>> THEN y
  ELSE IF y.m = <<>> THEN x
  ELSE IF x.e <= y.e
    THEN AddAligned(x.neg, x.m, y.neg, NatShl(y.m, y.e - x.e), x.e)
  ELSE AddAligned(x.neg, NatShl(x.m, x.e - y.e), y.neg, y.m, y.e)
DoubleAdd(x, y) == CHOOSE r \in {Added(a, b) : a \in {x}, b \in {y}} : TRUE

\* x - y
DoubleSub(x, y) == DoubleAdd(x, DoubleNeg(y))

\* x * y
Multiplied(x, y) ==
  WithSign(x.neg # y.neg, RoundToDouble(NatMul(x.m, y.m), x.e + y.e, FALSE))
DoubleMul(x, y) == CHOOSE r \in {Multiplied(a, b) : a \in {x}, b \in {y}} : TRUE

\* x / y for y # 0
Divided(x, y) ==
  CHOOSE r \in {WithSign(x.neg # y.neg,
                         RoundToDouble(res.q, x.e - y.e - (MantissaBits + 2),
                                       res.r # <<>>)) :
                  res \in {NatDivMod(NatShl(x.m, MantissaBits + 2), y.m)}} :
    TRUE
DoubleDiv(x, y) == CHOOSE r \in {Divided(a, b) : a \in {x}, b \in {y}} : TRUE

\* x < y
DoubleLess(x, y) ==
  CHOOSE r \in {d.neg /\ d.m # <<>> : d \in {DoubleSub(x, y)}} : TRUE

\* x * c for an integer 0 <= c < LimbBase
MultipliedInt(x, c) ==
  WithSign(x.neg, RoundToDouble(NatMulSmall(x.m, c), x.e, FALSE))
DoubleMulInt(x, c) == CHOOSE r \in {MultipliedInt(v, c) : v \in {x}} : TRUE

\* x / d for an integer 0 < d < LimbBase
DividedInt(x, d) ==
  CHOOSE r \in {WithSign(x.neg,
                         RoundToDouble(res.q, x.e - (LimbBits + 2),
                                       res.r # 0)) :
                  res \in {NatDivSmall(NatShl(x.m, LimbBits + 2), d)}} : TRUE
DoubleDivInt(x, d) == CHOOSE r \in {DividedInt(v, d) : v \in {x}} : TRUE

\* x > k for an integer k >= 0
DoubleGreaterInt(x, k) ==
  IF x.neg THEN FALSE
  ELSE IF x.e >= 0 THEN NatCmp(NatShl(x.m, x.e), NatOf(k)) = 1
  ELSE NatCmp(x.m, NatShl(NatOf(k), -x.e)) = 1

\* Math.round(x) = floor(x + 0.5), exactly; -0 is 0
Rounded(x) ==
  IF x.m = <<>> THEN 0
  ELSE IF x.e >= 0
    THEN (IF x.neg THEN -1 ELSE 1) * NatToInt(NatShl(x.m, x.e))
  ELSE IF ~x.neg
    THEN NatToInt(NatShr(NatAdd(x.m, NatShl(<<1>>, -x.e - 1)), -x.e).q)
  ELSE IF NatCmp(x.m, NatShl(<<1>>, -x.e - 1)) <= 0 THEN 0
  ELSE CHOOSE r \in {-(NatToInt(down.q) + IF down.sticky THEN 1 ELSE 0) :
                       down \in {NatShr(NatSub(x.m, NatShl(<<1>>, -x.e - 1)),
                                        -x.e)}} : TRUE
MathRound(x) == CHOOSE r \in {Rounded(v) : v \in {x}} : TRUE

\* prisma.focusSession.findFirst({ where: { id, userId } })
FindFirst(tbl, userId, sessionId) ==
  IF sessionId \in DOMAIN tbl /\ tbl[sessionId].userId = userId
    THEN Some(tbl[sessionId])
    ELSE NULL

\* prisma.focusSession.update({ where: { id }, data }): only the keys of data
\* are written, to the row as it is stored at the time of the write
Update(tbl, sessionId, data) ==
  [tbl EXCEPT ![sessionId] =
     [f \in DOMAIN tbl[sessionId] |->
        IF f \in DOMAIN data THEN data[f] ELSE tbl[sessionId][f]]]

\* { ...a, ...b }
Spread(a, b) ==
  [f \in DOMAIN a \cup DOMAIN b |-> IF f \in DOMAIN b THEN b[f] ELSE a[f]]

\* session.pauseDuration || 0
PauseDurationOrZero(session) ==
  IF session.pauseDuration = NULL THEN 0 ELSE Val(session.pauseDuration)

\* -------------------------------------------------- history of the pauses
\* what the callers did to a session: how many times it was paused (0, 1 or
\* more), as long as it was paused once only, for how many ticks of the
\* clock after its startTime its status was PAUSED, and whether it was paused
\* before it had a startTime
NoHist == [pauses |-> 0, pausedTicks |-> 0, early |-> FALSE]
HistPause(h, session) ==
  [pauses |-> IF h.pauses = 0 THEN 1 ELSE 2,
   pausedTicks |-> 0,
   early |-> h.early \/ session.startTime = NULL]
HistTick(tbl, h, d) ==
  [i \in DOMAIN h |->
     IF tbl[i].status = "PAUSED" /\ tbl[i].startTime # NULL /\ h[i].pauses = 1
       THEN [h[i] EXCEPT !.pausedTicks = @ + d]
       ELSE h[i]]

\* ------------------------------------------------------------------- Init
InitStores ==
  /\ focusSession = <<>>
  /\ now = 0
  /\ result = 0
  /\ hist = <<>>
  /\ procs = [p \in Procs |-> [pc |-> "idle", sessionId |-> NULL, code |-> 0]]
  /\ focusHabit = <<>>
  /\ focusHabitSession = EmptyBag
  /\ logs = [p \in Procs |->
               [pc |-> "idle", calls |-> 0, call |-> NULL,
                existingSession |-> NULL, data |-> NULL, error |-> "none"]]
  /\ streakEntry = <<>>
  /\ learningStreak = NULL
  /\ studySession = <<>>
  /\ subject = <<>>
  /\ quizSessions = <<>>

Init == InitStores /\ args = NULL /\ ret = NULL

\* the clock never goes backwards: it moves by single ticks during the first
\* FineTime ticks, and at any time to the next multiple of five minutes
CoarseStep == 5 * TicksPerMinute
ClockTargets(t) ==
  {t + 1 : x \in {t} \cap (0 .. FineTime - 1)}
    \cup {(t \div CoarseStep + 1) * CoarseStep}

Tick ==
  \E t \in ClockTargets(now) :
    /\ t <= MaxTime
    /\ now' = t
    /\ hist' = HistTick(focusSession, hist, t - now)
    /\ UNCHANGED <<focusSession, result, procs>>
    /\ UNCHANGED habitVars
    /\ UNCHANGED otherVars

\* ---------------------------------------------------------------- actions
NewRow(userId) ==
  [userId |-> userId, status |-> "ACTIVE", startTime |-> NULL,
   endTime |-> NULL, pausedAt |-> NULL, pauseDuration |-> NULL,
   actualDuration |-> NULL, effectiveness |-> NULL]

createFocusSession(userId, sessionId) ==
  /\ sessionId \notin DOMAIN focusSession
  /\ focusSession' = [i \in DOMAIN focusSession \cup {sessionId} |->
                        IF i = sessionId THEN NewRow(userId) ELSE focusSession[i]]
  /\ hist' = [i \in DOMAIN hist \cup {sessionId} |->
                IF i = sessionId THEN NoHist ELSE hist[i]]
  /\ result' = 201
  /\ UNCHANGED <<now, procs>>
  /\ UNCHANGED habitVars
  /\ UNCHANGED otherVars

\* startFocusSession: the status code the guards give for the row read
startCode(found) ==
  IF found = NULL THEN 404
  ELSE IF Val(found).status # "ACTIVE" /\ Val(found).status # "PAUSED" THEN 400
  ELSE 200

startData(session, t) ==
  Spread([status |-> "ACTIVE",
          startTime |-> IF session.startTime # NULL THEN session.startTime ELSE Some(t)],
         IF session.status = "PAUSED" THEN [pausedAt |-> NULL] ELSE <<>>)

startFocusSession(userId, sessionId) ==
  LET found == FindFirst(focusSession, userId, sessionId)
      code == startCode(found)
  IN /\ result' = code
     /\ focusSession' =
          IF code = 200
            THEN Update(focusSession, sessionId, startData(Val(found), now))
            ELSE focusSession
     /\ UNCHANGED <<now, hist, procs>>
     /\ UNCHANGED habitVars
     /\ UNCHANGED otherVars

\* pauseFocusSession with a guard that turns away ended sessions only
pauseCode_endedOnly(found) ==
  IF found = NULL THEN 404
  ELSE IF Val(found).status \in {"COMPLETED", "CANCELLED"} THEN 400
  ELSE 200

pauseCode(found) ==
  IF found = NULL THEN 404
  ELSE IF Val(found).status # "ACTIVE" THEN 400
  ELSE 200

pauseData(t) == [status |-> "PAUSED", pausedAt |-> Some(t)]

pauseFocusSession(userId, sessionId) ==
  LET found == FindFirst(focusSession, userId, sessionId)
      code == pauseCode(found)
  IN /\ result' = code
     /\ IF code = 200
          THEN /\ focusSession' = Update(focusSession, sessionId, pauseData(now))
               /\ hist' = [hist EXCEPT ![sessionId] =
                                         HistPause(@, focusSession[sessionId])]
          ELSE UNCHANGED <<focusSession, hist>>
     /\ UNCHANGED <<now, procs>>
     /\ UNCHANGED habitVars
     /\ UNCHANGED otherVars

resumeCode(found) ==
  IF found = NULL THEN 404
  ELSE IF Val(found).status # "PAUSED" THEN 400
  ELSE 200

\* resumeFocusSession with Math.floor in place of Math.round
resumePauseDuration_floor(session, t) ==
  PauseDurationOrZero(session)
    + (IF session.pausedAt # NULL
         THEN (t - Val(session.pausedAt)) \div TicksPerMinute ELSE 0)

\* resumeFocusSession storing the last pause in place of the sum
resumePauseDuration_last(session, t) ==
  IF session.pausedAt # NULL THEN Round(t - Val(session.pausedAt)) ELSE 0

\* let pauseDuration = session.pauseDuration || 0, plus the rounded open pause
resumePauseDuration(session, t) ==
  PauseDurationOrZero(session)
    + (IF session.pausedAt # NULL THEN Round(t - Val(session.pausedAt)) ELSE 0)

resumeData(session, t) ==
  [status |-> "ACTIVE", pausedAt |-> NULL,
   pauseDuration |-> Some(resumePauseDuration(session, t))]

resumeFocusSession(userId, sessionId) ==
  LET found == FindFirst(focusSession, userId, sessionId)
      code == resumeCode(found)
  IN /\ result' = code
     /\ focusSession' =
          IF code = 200
            THEN Update(focusSession, sessionId, resumeData(Val(found), now))
            ELSE focusSession
     /\ UNCHANGED <<now, hist, procs>>
     /\ UNCHANGED habitVars
     /\ UNCHANGED otherVars

\* a payload key as the column value Prisma stores for it
StoredValue(f, v) ==
  IF f \in {"endTime", "pausedAt"} THEN Some(ParseDate(v))
  ELSE IF f = "status" THEN v
  ELSE Some(v)

\* updateFocusSession without the subtraction of the pause minutes
actualDuration_total(session, t) ==
  Round(t - Val(session.startTime))

\* the actualDuration updateFocusSession computes for a session ending at t
actualDuration(session, t) ==
  Round(t - Val(session.startTime)) - PauseDurationOrZero(session)

\* updateFocusSession: the data object handed to prisma.focusSession.update
updateData(session, payload, t) ==
  LET given == [f \in DOMAIN payload |-> StoredValue(f, payload[f])]
      completing == "status" \in DOMAIN payload /\ payload.status = "COMPLETED"
                    /\ session.endTime = NULL
  IN IF ~completing THEN given
     ELSE Spread(Spread(given, [endTime |-> Some(t)]),
                 IF session.startTime # NULL
                   THEN [actualDuration |-> Some(actualDuration(session, t))]
                   ELSE <<>>)

updateCode(found) == IF found = NULL THEN 404 ELSE 200

updateFocusSession(userId, sessionId, payload) ==
  LET found == FindFirst(focusSession, userId, sessionId)
      code == updateCode(found)
  IN /\ result' = code
     /\ focusSession' =
          IF code = 200
            THEN Update(focusSession, sessionId, updateData(Val(found), payload, now))
            ELSE focusSession
     /\ UNCHANGED <<now, hist, procs>>
     /\ UNCHANGED habitVars
     /\ UNCHANGED otherVars

completePayload(t) == [status |-> "COMPLETED", endTime |-> ToISOString(t)]

completeFocusSession(userId, sessionId) ==
  updateFocusSession(userId, sessionId, completePayload(now))

cancelPayload(t) == [status |-> "CANCELLED", endTime |-> ToISOString(t)]

cancelFocusSession(userId, sessionId) ==
  updateFocusSession(userId, sessionId, cancelPayload(now))

\* ------------------------------------------- PATCH /focus-sessions/:id
\* the bodies updateFocusSessionSchema accepts, over small value sets: every
\* key is optional and a body carries at most one of them
PatchTimes == {0}
PatchPauseDurations == {0, 3}
PatchEffectiveness == {7}
updateFocusSessionSchema ==
  {<<>>}
    \cup {[status |-> st] : st \in SessionStatus}
    \cup {[endTime |-> ToISOString(t)] : t \in PatchTimes}
    \cup {[pausedAt |-> ToISOString(t)] : t \in PatchTimes}
    \cup {[pauseDuration |-> n] : n \in PatchPauseDurations}
    \cup {[effectiveness |-> e] : e \in PatchEffectiveness}

\* the controller behind the route: req.body goes to the service unchanged
updateFocusSessionController(userId, sessionId, body) ==
  updateFocusSession(userId, sessionId, body)

\* ------------------------------------ pauseFocusSession, step by step
\* the call up to the return of findFirst: the guards throw at once
pauseRead(p, userId, sessionId) ==
  LET found == FindFirst(focusSession, userId, sessionId)
      code == pauseCode(found)
  IN /\ procs[p].pc = "idle"
     /\ IF code = 200
          THEN /\ procs' = [procs EXCEPT ![p] = [pc |-> "read", sessionId |-> Some(sessionId), code |-> 0]]
               /\ UNCHANGED result
          ELSE /\ procs' = [procs EXCEPT ![p] = [pc |-> "done", sessionId |-> Some(sessionId), code |-> code]]
               /\ result' = code
     /\ UNCHANGED <<focusSession, now, hist>>
     /\ UNCHANGED habitVars
     /\ UNCHANGED otherVars

\* the rest of the call: prisma.focusSession.update and the response
pauseWrite(p) ==
  /\ procs[p].pc = "read"
  /\ focusSession' = Update(focusSession, Val(procs[p].sessionId), pauseData(now))
  /\ hist' = [hist EXCEPT ![Val(procs[p].sessionId)] =
                            HistPause(@, focusSession[Val(procs[p].sessionId)])]
  /\ procs' = [procs EXCEPT ![p].pc = "done", ![p].code = 200]
  /\ result' = 200
  /\ UNCHANGED now
  /\ UNCHANGED habitVars
  /\ UNCHANGED otherVars

\* ======================================================= focus habits
\* (FocusService in analytics/analytics.controller.ts)
\* a Date is a number of ticks; the calendar day has TicksPerDay of them
TicksPerDay == 24 * 60 * TicksPerMinute

\* sessionDate.setHours(0, 0, 0, 0)
StartOfDay(t) == (t \div TicksPerDay) * TicksPerDay

\* the dates the callers send: days 0 .. MaxDay, at midnight or at noon
DayOffsets == {0, TicksPerDay \div 2}
LogDates == {d * TicksPerDay + o : d \in 0 .. MaxDay, o \in DayOffsets}
TargetDaysInputs == {2}
\* the callers of logHabitSession: the owner of a habit u1 created, a
\* stranger to a habit u2 created
Loggers == {"u1"}

Max(a, b) == IF a >= b THEN a ELSE b

\* createFocusHabit: the row with the progress columns at their defaults
NewHabit(userId, targetDays) ==
  [userId |-> userId, targetDays |-> targetDays, sessionsPerDay |-> 1,
   completedDays |-> 0, currentStreak |-> 0, longestStreak |-> 0,
   totalSessions |-> 0, completedDate |-> NULL, isActive |-> TRUE]

createFocusHabit(userId, habitId, targetDays) ==
  /\ habitId \notin DOMAIN focusHabit
  /\ focusHabit' = [i \in DOMAIN focusHabit \cup {habitId} |->
                      IF i = habitId THEN NewHabit(userId, targetDays)
                      ELSE focusHabit[i]]
  /\ result' = 201
  /\ UNCHANGED <<now, focusHabitSession, logs>>
  /\ UNCHANGED sessionVars
  /\ UNCHANGED otherVars

\* prisma.focusHabitSession.findUnique({ where: { habitId_date } })
FindUniqueSession(tbl, habitId, date) ==
  LET rows == {r \in BagToSet(tbl) : r.habitId = habitId /\ r.date = date}
  IN IF rows = {} THEN NULL ELSE Some(CHOOSE r \in rows : TRUE)

\* prisma.focusHabitSession.create: the compound unique key (habitId, date)
\* makes a second row for the day fail with P2002
CreateSession(tbl, row) ==
  IF FindUniqueSession(tbl, row.habitId, row.date) # NULL
    THEN [error |-> "P2002", table |-> tbl]
    ELSE [error |-> "none", table |-> tbl (+) SetToBag({row})]

\* prisma.focusHabitSession.update({ where: { id }, data }): rows are never
\* deleted, so the id found earlier still names the row of that habit and day
UpdateSession(tbl, row, data) ==
  LET current == FindUniqueSession(tbl, row.habitId, row.date)
  IN IF current = NULL THEN [error |-> "P2025", table |-> tbl]
     ELSE [error |-> "none",
           table |-> (tbl (-) SetToBag({Val(current)}))
                       (+) SetToBag({[f \in DOMAIN row |->
                                        IF f \in DOMAIN data THEN data[f]
                                        ELSE Val(current)[f]]})]

\* include: { habitSessions }: the rows of one habit
habitSessions(tbl, habitId) ==
  [r \in {x \in BagToSet(tbl) : x.habitId = habitId} |-> tbl[r]]

\* habitSessions.sort((a, b) => b.date.getTime() - a.date.getTime())
RECURSIVE sortedSessions(_)
sortedSessions(b) ==
  IF BagToSet(b) = {} THEN <<>>
  ELSE LET r == CHOOSE x \in BagToSet(b) : \A y \in BagToSet(b) : y.date <= x.date
       IN <<r>> \o sortedSessions(b (-) SetToBag({r}))

\* for (const session of sortedSessions) { if (session.completed)
\*   currentStreak++; else break; }
RECURSIVE currentStreak(_)
currentStreak(sorted) ==
  IF sorted = <<>> THEN 0
  ELSE IF Head(sorted).completed THEN 1 + currentStreak(Tail(sorted))
  ELSE 0

RECURSIVE SumCompletedSessions(_)
SumCompletedSessions(sorted) ==
  IF sorted = <<>> THEN 0
  ELSE Head(sorted).completedSessions + SumCompletedSessions(Tail(sorted))

\* updateHabitProgress keeping the stored longestStreak
longestStreak_stored(habit, current) == habit.longestStreak

\* updateHabitProgress adding the streak to the stored longestStreak
longestStreak_sum(habit, current) == habit.longestStreak + current

\* Math.max(habit.longestStreak, currentStreak)
longestStreak(habit, current) == Max(habit.longestStreak, current)

completedDays(sorted) ==
  Cardinality({i \in DOMAIN sorted : sorted[i].completed})

\* updateHabitProgress: the data written for the habit row and the sessions
\* read with it at time t
habitProgressData(habit, sessions, t) ==
  LET sorted == sortedSessions(sessions)
      isCompleted == completedDays(sorted) >= habit.targetDays
  IN [completedDays |-> completedDays(sorted),
      currentStreak |-> currentStreak(sorted),
      longestStreak |-> longestStreak(habit, currentStreak(sorted)),
      totalSessions |-> SumCompletedSessions(sorted),
      completedDate |-> IF isCompleted /\ habit.completedDate = NULL
                          THEN Some(t) ELSE habit.completedDate,
      isActive |-> ~isCompleted]

updateHabitProgress(habits, tbl, habitId, t) ==
  IF habitId \notin DOMAIN habits THEN habits
  ELSE Update(habits, habitId,
              habitProgressData(habits[habitId], habitSessions(tbl, habitId), t))

\* logHabitSession up to updateHabitProgress: the session row written
newSessionRow(habit, userId, habitId, sessionDate, completed, completedSessions) ==
  [habitId |-> habitId, date |-> sessionDate, completed |-> completed,
   plannedSessions |-> habit.sessionsPerDay,
   completedSessions |-> completedSessions, userId |-> userId]

sessionUpdateData(completed, completedSessions) ==
  [completed |-> completed, completedSessions |-> completedSessions]

writeHabitSession(habits, tbl, existingSession, userId, habitId, sessionDate, completed, completedSessions) ==
  IF existingSession # NULL
    THEN UpdateSession(tbl, Val(existingSession),
                       sessionUpdateData(completed, completedSessions))
  ELSE IF habitId \notin DOMAIN habits
    THEN [error |-> "NotFound", table |-> tbl]
  ELSE CreateSession(tbl, newSessionRow(habits[habitId], userId, habitId,
                                        sessionDate, completed, completedSessions))

\* FocusController.logHabitSession: 201, and every error rethrown as 500
logHabitSessionResponse(error) == IF error = "none" THEN 201 ELSE 500

\* sessionData.date || new Date(), normalised
sessionDateOf(date, t) == StartOfDay(IF date = NULL THEN t ELSE Val(date))

\* logHabitSession as one call that nothing interleaves with
logHabitSession(userId, habitId, date, completed, completedSessions) ==
  LET sessionDate == sessionDateOf(date, now)
      existingSession == FindUniqueSession(focusHabitSession, habitId, sessionDate)
      written == writeHabitSession(focusHabit, focusHabitSession, existingSession,
                                   userId, habitId, sessionDate, completed,
                                   completedSessions)
  IN /\ focusHabitSession' = written.table
     /\ focusHabit' = IF written.error = "none"
                        THEN updateHabitProgress(focusHabit, written.table, habitId, now)
                        ELSE focusHabit
     /\ result' = logHabitSessionResponse(written.error)
     /\ UNCHANGED <<now, logs>>
     /\ UNCHANGED sessionVars
     /\ UNCHANGED otherVars

\* FocusService.getHabitProgress: findFirst by id and owner, 404 when none
getHabitProgressCode(found) == IF found = NULL THEN 404 ELSE 200

\* FocusController.getHabitProgress: 200, and every error rethrown as 500
getHabitProgressResponse(code) == IF code = 200 THEN 200 ELSE 500

getHabitProgress(userId, habitId) ==
  /\ result' = getHabitProgressResponse(
                  getHabitProgressCode(FindFirst(focusHabit, userId, habitId)))
  /\ UNCHANGED <<now, focusHabit, focusHabitSession, logs>>
  /\ UNCHANGED sessionVars
  /\ UNCHANGED otherVars

\* logHabitSession between its awaits, for calls that run side by side.
\* the call up to the answer of prisma.focusHabitSession.findUnique
logFind(p, userId, habitId, date, completed, completedSessions) ==
  LET sessionDate == sessionDateOf(date, now)
  IN /\ logs[p].pc \in {"idle", "done"}
     /\ logs[p].calls < MaxCalls
     /\ logs' = [logs EXCEPT ![p] =
                   [pc |-> "write", calls |-> logs[p].calls + 1,
                    call |-> Some([userId |-> userId, habitId |-> habitId,
                                   sessionDate |-> sessionDate,
                                   completed |-> completed,
                                   completedSessions |-> completedSessions]),
                    existingSession |->
                      FindUniqueSession(focusHabitSession, habitId, sessionDate),
                    data |-> NULL, error |-> "none"]]
     /\ UNCHANGED <<now, result, focusHabit, focusHabitSession>>
     /\ UNCHANGED sessionVars
     /\ UNCHANGED otherVars

\* the update of the row found, or the habit lookup and the create; an error
\* ends the call with the controller's 500
logWrite(p) ==
  LET call == Val(logs[p].call)
      written == writeHabitSession(focusHabit, focusHabitSession,
                                   logs[p].existingSession, call.userId,
                                   call.habitId, call.sessionDate,
                                   call.completed, call.completedSessions)
  IN /\ logs[p].pc = "write"
     /\ focusHabitSession' = written.table
     /\ IF written.error = "none"
          THEN /\ logs' = [logs EXCEPT ![p].pc = "progress"]
               /\ UNCHANGED result
          ELSE /\ logs' = [logs EXCEPT ![p].pc = "done", ![p].error = written.error]
               /\ result' = logHabitSessionResponse(written.error)
     /\ UNCHANGED <<now, focusHabit>>
     /\ UNCHANGED sessionVars
     /\ UNCHANGED otherVars

\* updateHabitProgress up to the answer of prisma.focusHabit.findUnique, and
\* the statistics computed from it
logProgressRead(p) ==
  LET habitId == Val(logs[p].call).habitId
  IN /\ logs[p].pc = "progress"
     /\ logs' = [logs EXCEPT ![p].pc = "save",
                             ![p].data = Some(habitProgressData(
                                focusHabit[habitId],
                                habitSessions(focusHabitSession, habitId), now))]
     /\ UNCHANGED <<now, result, focusHabit, focusHabitSession>>
     /\ UNCHANGED sessionVars
     /\ UNCHANGED otherVars

\* prisma.focusHabit.update and the response
logProgressWrite(p) ==
  /\ logs[p].pc = "save"
  /\ focusHabit' = Update(focusHabit, Val(logs[p].call).habitId, Val(logs[p].data))
  /\ logs' = [logs EXCEPT ![p].pc = "done"]
  /\ result' = logHabitSessionResponse("none")
  /\ UNCHANGED <<now, focusHabitSession>>
  /\ UNCHANGED sessionVars
  /\ UNCHANGED otherVars

\* ======================================================= analytics
\* (AnalyticsService in analytics/analytics.controller.ts)
\* a session start is a number of hours since a Monday 00:00 local time
WeekDays == <<"Monday", "Tuesday", "Wednesday", "Thursday", "Friday",
              "Saturday", "Sunday">>
getHours(t) == t % 24
\* toLocaleDateString("en-US", { weekday: "long" })
weekdayOf(t) == WeekDays[((t \div 24) % 7) + 1]

\* `${hour}` and parseInt(hourStr): the decimal digits of the hour
hourDigits(h) == IF h < 10 THEN <<h>> ELSE <<h \div 10, h % 10>>
RECURSIVE parseInt(_)
parseInt(ds) ==
  IF ds = <<>> THEN 0 ELSE 10 * parseInt(SubSeq(ds, 1, Len(ds) - 1)) + ds[Len(ds)]

\* `${dayOfWeek}-${hour}` and key.split("-")
bucketKey(dayOfWeek, hour) == <<dayOfWeek, hourDigits(hour)>>

\* timeEfficiency.get(key) || { total: 0, effectiveHours: 0, sessions: 0 },
\* the three sums, and timeEfficiency.set(key, current): a Map keeps its
\* keys in the order of their first set
addToBucket(map, key, duration, rating) ==
  LET at == {i \in DOMAIN map : map[i].key = key}
      current == IF at = {}
                   THEN [key |-> key, total |-> 0,
                         effectiveHours |-> DoubleZero, sessions |-> 0]
                   ELSE map[CHOOSE i \in at : TRUE]
      next == [key |-> key,
               total |-> current.total + duration,
               effectiveHours |->
                 DoubleAdd(current.effectiveHours,
                           DoubleDivInt(DoubleOf(duration * rating), 10)),
               sessions |-> current.sessions + 1]
  IN IF at = {} THEN Append(map, next)
     ELSE [map EXCEPT ![CHOOSE i \in at : TRUE] = next]

\* studySessions.forEach: sessions with a productivity and a duration
RECURSIVE addStudySessions(_, _)
addStudySessions(map, sessions) ==
  IF sessions = <<>> THEN map
  ELSE LET session == Head(sessions)
       IN addStudySessions(
            IF session.productivity # NULL /\ Val(session.productivity) # 0
               /\ session.duration # NULL /\ Val(session.duration) # 0
              THEN addToBucket(map,
                               bucketKey(weekdayOf(session.startTime),
                                         getHours(session.startTime)),
                               Val(session.duration), Val(session.productivity))
              ELSE map,
            Tail(sessions))

\* focusSessions.forEach: sessions with an effectiveness and an
\* actualDuration; without startTime the bucket is "Unknown", hour 0
RECURSIVE addFocusSessions(_, _)
addFocusSessions(map, sessions) ==
  IF sessions = <<>> THEN map
  ELSE LET session == Head(sessions)
           hour == IF session.startTime = NULL THEN 0
                   ELSE getHours(Val(session.startTime))
           dayOfWeek == IF session.startTime = NULL THEN "Unknown"
                        ELSE weekdayOf(Val(session.startTime))
       IN addFocusSessions(
            IF session.effectiveness # NULL /\ Val(session.effectiveness) # 0
               /\ session.actualDuration # NULL /\ Val(session.actualDuration) # 0
              THEN addToBucket(map, bucketKey(dayOfWeek, hour),
                               Val(session.actualDuration),
                               Val(session.effectiveness))
              ELSE map,
            Tail(sessions))

\* data.total > 0 ? (data.effectiveHours / data.total) * 100 : 0
bucketEfficiency(data) ==
  IF data.total > 0
    THEN DoubleMulInt(DoubleDivInt(data.effectiveHours, data.total), 100)
    ELSE DoubleZero

\* if (data.sessions >= 2 && efficiency > 60)
MinBucketSessions == 2
MinEfficiency == 60
isOptimal(data) ==
  data.sessions >= MinBucketSessions
    /\ DoubleGreaterInt(bucketEfficiency(data), MinEfficiency)

\* timeEfficiency.forEach: the entries pushed, in the order of the map
RECURSIVE optimalTimesOf(_)
optimalTimesOf(map) ==
  IF map = <<>> THEN <<>>
  ELSE LET data == Head(map)
       IN (IF isOptimal(data)
             THEN <<[hour |-> parseInt(data.key[2]),
                     dayOfWeek |-> data.key[1],
                     efficiency |-> MathRound(bucketEfficiency(data)),
                     reasoning |-> [sessions |-> data.sessions,
                                    effectiveness |->
                                      MathRound(bucketEfficiency(data))]]>>
             ELSE <<>>)
          \o optimalTimesOf(Tail(map))

\* .sort((a, b) => b.efficiency - a.efficiency): Array.prototype.sort is
\* stable, equal efficiencies keep their order
RECURSIVE insertByEfficiency(_, _)
insertByEfficiency(sorted, x) ==
  IF sorted = <<>> THEN <<x>>
  ELSE IF Head(sorted).efficiency >= x.efficiency
    THEN <<Head(sorted)>> \o insertByEfficiency(Tail(sorted), x)
  ELSE <<x>> \o sorted
RECURSIVE sortByEfficiency(_)
sortByEfficiency(xs) ==
  IF xs = <<>> THEN <<>>
  ELSE insertByEfficiency(sortByEfficiency(SubSeq(xs, 1, Len(xs) - 1)),
                          xs[Len(xs)])

\* .slice(0, 10)
MaxOptimalTimes == 10
slice(xs, n) == SubSeq(xs, 1, IF Len(xs) < n THEN Len(xs) ELSE n)

timeEfficiency(studySessions, focusSessions) ==
  addFocusSessions(addStudySessions(<<>>, studySessions), focusSessions)

analyzeOptimalTimes(studySessions, focusSessions) ==
  slice(sortByEfficiency(
          optimalTimesOf(timeEfficiency(studySessions, focusSessions))),
        MaxOptimalTimes)

\* the sessions handed to analyzeOptimalTimes: FilledBuckets buckets of two
\* well rated study sessions each, then up to MaxSessions sessions at two
\* hours of a Monday
MaxSessions == 2
SessionStarts == {9, 10}
SessionDurations == {20, 21}
SessionRatings == {6, 10}
FilledBuckets == {0, MaxOptimalTimes}
filledSessions(k) ==
  [i \in 1 .. 2 * k |->
     [startTime |-> 24 + (i - 1) \div 2, duration |-> Some(30),
      productivity |-> Some(9)]]
StudyInputs ==
  [startTime : SessionStarts, duration : Opt(SessionDurations),
   productivity : Opt(SessionRatings)]
FocusInputs ==
  [startTime : Opt(SessionStarts), actualDuration : Opt(SessionDurations),
   effectiveness : Opt(SessionRatings)]
SeqsUpTo(S, n) == UNION {[1 .. k -> S] : k \in 0 .. n}
OptimalTimesInputs ==
  {[studySessions |-> filledSessions(k) \o p[1], focusSessions |-> p[2]] :
     k \in FilledBuckets,
     p \in {q \in SeqsUpTo(StudyInputs, MaxSessions)
                     \X SeqsUpTo(FocusInputs, MaxSessions) :
               Len(q[1]) + Len(q[2]) <= MaxSessions}}

InitOptimalTimes == InitStores /\ args \in OptimalTimesInputs /\ ret = NULL

\* the caller of analyzeOptimalTimes handing it the sessions read
analyzeOptimalTimesCall ==
  /\ ret = NULL
  /\ ret' = Some(analyzeOptimalTimes(args.studySessions, args.focusSessions))
  /\ UNCHANGED <<now, result, args, streakEntry, learningStreak, studySession,
                 subject, quizSessions>>
  /\ UNCHANGED sessionVars
  /\ UNCHANGED habitVars

\* ------------------------------------------------------- trend analysis
\* Math.max, Math.min of two doubles
DoubleMax(x, y) ==
  CHOOSE r \in {IF DoubleLess(a, b) THEN b ELSE a : a \in {x}, b \in {y}} : TRUE
DoubleMin(x, y) ==
  CHOOSE r \in {IF DoubleLess(b, a) THEN b ELSE a : a \in {x}, b \in {y}} : TRUE

\* points.forEach((point, index) => ...): the sums over index and score,
\* whole numbers that doubles hold exactly
sumTerm(which, x, y) ==
  CASE which = "sumX" -> x
    [] which = "sumY" -> y
    [] which = "sumXY" -> x * y
    [] which = "sumXX" -> x * x
RECURSIVE SumPoints(_, _, _)
SumPoints(points, i, which) ==
  IF i > Len(points) THEN 0
  ELSE sumTerm(which, i - 1, points[i].score) + SumPoints(points, i + 1, which)

\* (n * sumXY - sumX * sumY) / (n * sumXX - sumX * sumX)
slopeOf(points) ==
  DoubleDiv(DoubleOfInt(Len(points) * SumPoints(points, 1, "sumXY")
                          - SumPoints(points, 1, "sumX")
                              * SumPoints(points, 1, "sumY")),
            DoubleOfInt(Len(points) * SumPoints(points, 1, "sumXX")
                          - SumPoints(points, 1, "sumX")
                              * SumPoints(points, 1, "sumX")))

\* ssRes and ssTot: Math.pow(d, 2) taken as the rounded product d * d,
\* added to the sum so far point by point
squared(x) == CHOOSE r \in {DoubleMul(d, d) : d \in {x}} : TRUE
RECURSIVE ssResOf(_, _, _, _, _)
ssResOf(points, i, slope, intercept, ssRes) ==
  IF i > Len(points) THEN ssRes
  ELSE CHOOSE r \in
         {ssResOf(points, i + 1, slope, intercept, sum) :
            sum \in {DoubleAdd(ssRes,
                       squared(DoubleSub(DoubleOfInt(points[i].score),
                                         DoubleAdd(DoubleMulInt(slope, i - 1),
                                                   intercept))))}} : TRUE
RECURSIVE ssTotOf(_, _, _, _)
ssTotOf(points, i, avgY, ssTot) ==
  IF i > Len(points) THEN ssTot
  ELSE CHOOSE r \in
         {ssTotOf(points, i + 1, avgY, sum) :
            sum \in {DoubleAdd(ssTot,
                       squared(DoubleSub(DoubleOfInt(points[i].score),
                                         avgY)))}} : TRUE

\* const avgY = sumY / n
avgYOf(points) ==
  DoubleDiv(DoubleOfInt(SumPoints(points, 1, "sumY")), DoubleOfInt(Len(points)))

\* const intercept = avgY - (slope * (n - 1)) / 2
interceptOf(points, slope, avgY) ==
  DoubleSub(avgY, DoubleDivInt(DoubleMulInt(slope, Len(points) - 1), 2))

\* ssTot === 0 ? 0 : 1 - ssRes / ssTot
rSquaredOf(points, slope, avgY, intercept) ==
  CHOOSE r \in
    {IF ssTot.m = <<>> THEN DoubleZero
     ELSE DoubleSub(DoubleOf(1), DoubleDiv(ssRes, ssTot)) :
       ssRes \in {ssResOf(points, 1, slope, intercept, DoubleZero)},
       ssTot \in {ssTotOf(points, 1, avgY, DoubleZero)}} : TRUE

\* rSquared * 100
rSquaredPercent(points, slope) ==
  CHOOSE r \in
    {DoubleMulInt(rSquaredOf(points, slope, avgY,
                             interceptOf(points, slope, avgY)), 100) :
       avgY \in {avgYOf(points)}} : TRUE

MinConfidence == 30
MaxConfidence == 95

\* calculateConfidence returning rSquared * 100 as it is
calculateConfidence_unclamped(points, slope) ==
  IF Len(points) < 3 THEN DoubleOf(MinConfidence)
  ELSE rSquaredPercent(points, slope)

\* Math.max(30, Math.min(95, rSquared * 100))
calculateConfidence(points, slope) ==
  IF Len(points) < 3 THEN DoubleOf(MinConfidence)
  ELSE DoubleMax(DoubleOf(MinConfidence),
                 DoubleMin(DoubleOf(MaxConfidence),
                           rSquaredPercent(points, slope)))

\* Math.abs(improvementRate) < 0.5, then the sign
trendOf(improvementRate) ==
  IF DoubleLess(DoubleAbs(improvementRate), DoubleDivInt(DoubleOf(1), 2))
    THEN "stable"
  ELSE IF ~improvementRate.neg THEN "improving"
  ELSE "declining"

\* Math.round(improvementRate * 100) / 100
roundedRate(improvementRate) ==
  DoubleDiv(DoubleOfInt(MathRound(DoubleMulInt(improvementRate, 100))),
            DoubleOf(100))

\* the analysis for the slope found: improvementRate = slope * 7
trendFromSlope(points, slope) ==
  CHOOSE r \in
    {[trend |-> trendOf(improvementRate),
      improvementRate |-> roundedRate(improvementRate),
      confidence |-> MathRound(calculateConfidence(points, slope))] :
       improvementRate \in {DoubleMulInt(slope, 7)}} : TRUE

analyzeTrend(points) ==
  IF Len(points) < 2
    THEN [trend |-> "stable", improvementRate |-> DoubleZero, confidence |-> 0]
  ELSE CHOOSE r \in {trendFromSlope(points, slope) :
                       slope \in {slopeOf(points)}} : TRUE

\* lastScore + improvementRate * (confidence / 100)
projectedScore(points, trendAnalysis) ==
  DoubleAdd(DoubleOfInt(points[Len(points)].score),
            DoubleMul(trendAnalysis.improvementRate,
                      DoubleDiv(DoubleOfInt(trendAnalysis.confidence),
                                DoubleOf(100))))

\* calculateProjectedPerformance without Math.max / Math.min
calculateProjectedPerformance_unclamped(points, trendAnalysis) ==
  IF Len(points) = 0 THEN DoubleZero
  ELSE projectedScore(points, trendAnalysis)

\* Math.max(0, Math.min(100, lastScore + projectedImprovement))
calculateProjectedPerformance(points, trendAnalysis) ==
  IF Len(points) = 0 THEN DoubleZero
  ELSE DoubleMax(DoubleZero,
                 DoubleMin(DoubleOf(100), projectedScore(points, trendAnalysis)))

\* the performance points handed to analyzeTrend: up to MaxPoints scores
MaxPoints == 3
Scores == {0, 68, 70, 100}
TrendInputs == {[points |-> [i \in DOMAIN q |-> [score |-> q[i]]]] :
                  q \in SeqsUpTo(Scores, MaxPoints)}
InitTrend == InitStores /\ args \in TrendInputs /\ ret = NULL

\* getLearningCurve: analyzeTrend, then calculateProjectedPerformance
getLearningCurve ==
  /\ ret = NULL
  /\ \E trendAnalysis \in {analyzeTrend(args.points)} :
       ret' = Some([trendAnalysis |-> trendAnalysis,
                    projectedPerformance |->
                      calculateProjectedPerformance(args.points, trendAnalysis)])
  /\ UNCHANGED <<now, result, args, streakEntry, learningStreak, studySession,
                 subject, quizSessions>>
  /\ UNCHANGED sessionVars
  /\ UNCHANGED habitVars

\* ------------------------------------------------------- learning streaks
\* the days on which entries can be dated, and the hours an entry can carry
StreakDays == 0 .. MaxDay + 2
StreakValues == {1}
StreakOwner == "u1"

\* prisma.learningStreak.create: the streak with its counters at their defaults
createLearningStreak ==
  /\ learningStreak = NULL
  /\ learningStreak' = Some([userId |-> StreakOwner, currentStreak |-> 0,
                             longestStreak |-> 0, totalDays |-> 0,
                             lastActiveDate |-> NULL])
  /\ ret' = Some("created")
  /\ UNCHANGED <<now, result, args, streakEntry, studySession, subject,
                 quizSessions>>
  /\ UNCHANGED sessionVars
  /\ UNCHANGED habitVars

\* findMany({ where: { streakId }, orderBy: { date: "desc" } }): the dates
RECURSIVE datesDesc(_)
datesDesc(days) ==
  IF days = {} THEN <<>>
  ELSE LET d == CHOOSE x \in days : \A y \in days : y <= x
       IN <<d>> \o datesDesc(days \ {d})

\* the for loop of updateStreakStatistics over entries[i ..]
RECURSIVE scanEntries(_, _, _, _)
scanEntries(entries, dates, i, st) ==
  IF i > Len(dates) THEN st
  ELSE LET entry == entries[dates[i]]
           daysDiff == Val(st.lastDate) - entry.date
       IN IF st.lastDate = NULL
            THEN scanEntries(entries, dates, i + 1,
                   IF entry.goalMet
                     THEN [st EXCEPT !.lastDate = Some(entry.date),
                                     !.currentStreak = 1, !.tempStreak = 1]
                     ELSE [st EXCEPT !.lastDate = Some(entry.date)])
          ELSE IF daysDiff = 1 /\ entry.goalMet
            THEN scanEntries(entries, dates, i + 1,
                   [st EXCEPT !.lastDate = Some(entry.date),
                              !.currentStreak = @ + 1, !.tempStreak = @ + 1])
          ELSE scanEntries(entries, dates, i + 1,
                 [st EXCEPT !.lastDate = Some(entry.date),
                            !.longestStreak =
                              IF st.tempStreak > @ THEN st.tempStreak ELSE @,
                            !.tempStreak = IF entry.goalMet THEN 1 ELSE 0])

\* updateStreakStatistics: the streak row after the update
updateStreakStatistics(streak, entries) ==
  IF DOMAIN entries = {} THEN streak
  ELSE LET dates == datesDesc(DOMAIN entries)
           st == scanEntries(entries, dates, 1,
                   [currentStreak |-> 0, longestStreak |-> 0, tempStreak |-> 0,
                    lastDate |-> NULL])
       IN [streak EXCEPT
             !.currentStreak = st.currentStreak,
             !.longestStreak = IF st.tempStreak > st.longestStreak
                                 THEN st.tempStreak ELSE st.longestStreak,
             !.totalDays = Len(dates),
             !.lastActiveDate = Some(dates[1])]

\* addStreakEntry(userId, streakId, payload): 404 for a streak that is not the
\* user's, P2002 from create for a date that has its entry, otherwise the
\* entry is created and the statistics are updated
addStreakEntry(userId, date, value, goalMet) ==
  /\ learningStreak # NULL
  /\ IF Val(learningStreak).userId # userId
       THEN /\ ret' = Some("Learning streak not found")
            /\ UNCHANGED learningVars
     ELSE IF date \in DOMAIN streakEntry
       THEN /\ ret' = Some("P2002")
            /\ UNCHANGED learningVars
     ELSE LET entries == [d \in DOMAIN streakEntry \cup {date} |->
                            IF d = date
                              THEN [date |-> date, value |-> value,
                                    goalMet |-> goalMet]
                              ELSE streakEntry[d]]
          IN /\ streakEntry' = entries
             /\ learningStreak' =
                  Some(updateStreakStatistics(Val(learningStreak), entries))
             /\ ret' = Some("created")
  /\ UNCHANGED <<now, result, args, studySession, subject, quizSessions>>
  /\ UNCHANGED sessionVars
  /\ UNCHANGED habitVars

\* ------------------------------------------------------- focus methods
\* FAMOUS_FOCUS_METHODS: id, focusDuration, breakDuration
FAMOUS_FOCUS_METHODS ==
  << [id |-> "pomodoro-classic", focusDuration |-> 25, breakDuration |-> 5],
     [id |-> "pomodoro-extended", focusDuration |-> 50, breakDuration |-> 10],
     [id |-> "deep-work-90", focusDuration |-> 90, breakDuration |-> 20],
     [id |-> "rule-52-17", focusDuration |-> 52, breakDuration |-> 17],
     [id |-> "mindful-25", focusDuration |-> 25, breakDuration |-> 5],
     [id |-> "feynman-blocks", focusDuration |-> 30, breakDuration |-> 10],
     [id |-> "active-recall-30", focusDuration |-> 30, breakDuration |-> 10] >>

\* enum FocusMode: the values
LegacyFocusModes == {"POMODORO", "DEEP_WORK", "CUSTOM", "MARATHON"}
FocusMode ==
  LegacyFocusModes \cup
    {"POMODORO_CLASSIC", "POMODORO_EXTENDED", "DEEP_WORK_90", "DEEP_WORK_120",
     "TIMEBOXING_45", "TIMEBOXING_60", "RULE_52_17", "RULE_90_20",
     "MINDFUL_25", "MINDFUL_45", "FEYNMAN_BLOCKS", "ACTIVE_RECALL_30",
     "HABIT_21_DAYS", "HABIT_66_DAYS"}

\* FAMOUS_FOCUS_METHODS.find((m) => m.id === id): the first such method
findMethod(id) ==
  IF \E i \in DOMAIN FAMOUS_FOCUS_METHODS : FAMOUS_FOCUS_METHODS[i].id = id
    THEN Some(FAMOUS_FOCUS_METHODS[
                CHOOSE i \in DOMAIN FAMOUS_FOCUS_METHODS :
                  /\ FAMOUS_FOCUS_METHODS[i].id = id
                  /\ \A j \in 1 .. i - 1 : FAMOUS_FOCUS_METHODS[j].id # id])
  ELSE NULL

\* LEGACY_FOCUS_MODE_MAPPING: the method of each legacy mode
LEGACY_FOCUS_MODE_MAPPING ==
  [mode \in LegacyFocusModes |->
     CASE mode = "POMODORO" -> [method |-> findMethod("pomodoro-classic")]
       [] mode = "DEEP_WORK" -> [method |-> findMethod("deep-work-90")]
       [] mode = "CUSTOM" -> [method |-> NULL]
       [] mode = "MARATHON" -> [method |-> NULL]]

getLegacyModeMapping(legacyMode) ==
  IF legacyMode \in DOMAIN LEGACY_FOCUS_MODE_MAPPING
    THEN LEGACY_FOCUS_MODE_MAPPING[legacyMode]
  ELSE [method |-> NULL]

isLegacyFocusMode(mode) == mode \in LegacyFocusModes

durations(focus, break) == [focusDuration |-> focus, breakDuration |-> break]

getMethodConfiguration(focusMode) ==
  IF isLegacyFocusMode(focusMode)
    THEN LET legacyMapping == getLegacyModeMapping(focusMode)
         IN IF legacyMapping.method # NULL
              THEN durations(Val(legacyMapping.method).focusDuration,
                             Val(legacyMapping.method).breakDuration)
            ELSE CASE focusMode = "POMODORO" -> durations(25, 5)
                   [] focusMode = "DEEP_WORK" -> durations(90, 20)
                   [] focusMode = "MARATHON" -> durations(120, 30)
                   [] OTHER -> durations(25, 5)
  ELSE LET method == findMethod(focusMode)
       IN IF method # NULL
            THEN durations(Val(method).focusDuration, Val(method).breakDuration)
          ELSE durations(25, 5)

\* a || b for an optional number a: b when a is missing or 0
OrElse(a, b) == IF a = NULL \/ a = Some(0) THEN b ELSE Val(a)

\* the habitData of createFocusHabit: a mode and, optionally, the durations
GivenFocusDurations == Opt({0, 40})
GivenBreakDurations == Opt({0, 15})
HabitDataInputs ==
  [focusMode : FocusMode, focusDuration : GivenFocusDurations,
   breakDuration : GivenBreakDurations]
InitMethods == InitStores /\ args \in HabitDataInputs /\ ret = NULL

\* createFocusHabit: the focusDuration and breakDuration of the row it creates
createFocusHabitDurations ==
  LET methodConfig == getMethodConfiguration(args.focusMode)
  IN /\ ret = NULL
     /\ ret' = Some(durations(
                  OrElse(args.focusDuration, methodConfig.focusDuration),
                  OrElse(args.breakDuration, methodConfig.breakDuration)))
     /\ UNCHANGED <<now, result, args, streakEntry, learningStreak, studySession,
                    subject, quizSessions>>
     /\ UNCHANGED sessionVars
     /\ UNCHANGED habitVars

\* ------------------------------------------------------- time tracking
\* times are counted in slots, SlotsPerDay to the day; a range starts in the
\* first day, on midnight or not, and is up to MaxRangeDays days long
SlotsPerDay == 2
MaxRangeDays == 2
RangeStarts == 0 .. SlotsPerDay - 1
RangeTimes == 0 .. (SlotsPerDay - 1) + MaxRangeDays * SlotsPerDay
TrackedDurations == Opt({30, 50})

\* findMany({ where: { startTime: { gte: start, lte: end } } })
sessionsInRange(sessions, start, end) ==
  LET inRange(x) == x.startTime >= start /\ x.startTime <= end
  IN SelectSeq(sessions, inRange)

\* reduce((sum, session) => sum + (session.duration || 0), 0)
RECURSIVE totalMinutes(_)
totalMinutes(sessions) ==
  IF sessions = <<>> THEN 0
  ELSE (IF Head(sessions).duration = NULL THEN 0
        ELSE Val(Head(sessions).duration)) + totalMinutes(Tail(sessions))

\* minutes / 60
hoursOfMinutes(minutes) == DoubleDivInt(DoubleOfInt(minutes), 60)

\* getDailyBreakdown from currentDate on
RECURSIVE getDailyBreakdownFrom(_, _, _)
getDailyBreakdownFrom(sessions, currentDate, endDate) ==
  IF ~(currentDate < endDate) THEN <<>>
  ELSE LET dayStart == currentDate
           dayEnd == currentDate + SlotsPerDay
           inDay(x) == x.startTime >= dayStart /\ x.startTime < dayEnd
           daySessions == SelectSeq(sessions, inDay)
       IN <<[date |-> currentDate,
             hours |-> hoursOfMinutes(totalMinutes(daySessions))]>>
            \o getDailyBreakdownFrom(sessions, currentDate + SlotsPerDay, endDate)
getDailyBreakdown(sessions, startDate, endDate) ==
  getDailyBreakdownFrom(sessions, startDate, endDate)

\* generateTimeTrackingReport: the daily totals and the total of the range
generateTimeTrackingReport(sessions, startDate, endDate) ==
  LET days == getDailyBreakdown(sessions, startDate, endDate)
  IN [daily |-> [i \in DOMAIN days |->
                   [date |-> days[i].date, totalHours |-> days[i].hours]],
      weekly |-> [totalHours |-> hoursOfMinutes(totalMinutes(sessions))]]

\* the calls of getTimeTracking drawn: a range and the stored sessions
TimeTrackingInputs ==
  {[start |-> a, end |-> b, sessions |-> q] :
     a \in RangeStarts, b \in RangeTimes,
     q \in SeqsUpTo([startTime : RangeTimes, duration : TrackedDurations],
                    MaxSessions)}
InitTimeTracking == InitStores /\ args \in TimeTrackingInputs /\ ret = NULL

\* getTimeTracking with startDate and endDate given
getTimeTracking ==
  /\ ret = NULL
  /\ ret' = Some(generateTimeTrackingReport(
                   sessionsInRange(args.sessions, args.start, args.end),
                   args.start, args.end))
  /\ UNCHANGED <<now, result, args, streakEntry, learningStreak, studySession,
                 subject, quizSessions>>
  /\ UNCHANGED sessionVars
  /\ UNCHANGED habitVars

\* ------------------------------------------------------- study sessions
\* the subject, its owner, and the times a study session can be given
SubjectIds == {"sub1"}
SubjectOwner == "u1"
MaxStudySessions == 2
MaxHours == 2
StudyStartTimes == {1 * TicksPerMinute}
StudyEndTimes == {31 * TicksPerMinute, 51 * TicksPerMinute}
StudyUpdateEndTimes == StudyStartTimes \cup StudyEndTimes

\* prisma.subject.create: the subject with no hours studied
createSubject(userId, subjectId) ==
  /\ subjectId \notin DOMAIN subject
  /\ subject' = [id \in DOMAIN subject \cup {subjectId} |->
                   IF id = subjectId
                     THEN [userId |-> userId, totalHoursStudied |-> DoubleZero]
                     ELSE subject[id]]
  /\ ret' = Some("created")
  /\ UNCHANGED <<now, result, args, streakEntry, learningStreak, studySession,
                 quizSessions>>
  /\ UNCHANGED sessionVars
  /\ UNCHANGED habitVars

\* getSubjectById: the subject with this id of this user
subjectFound(userId, subjectId) ==
  subjectId \in DOMAIN subject /\ subject[subjectId].userId = userId

\* updateSubjectHours: totalHoursStudied: { increment: hoursToAdd }
updateSubjectHours(tbl, subjectId, hoursToAdd) ==
  [tbl EXCEPT ![subjectId].totalHoursStudied = DoubleAdd(@, hoursToAdd)]

\* duration / 60
hoursOf(duration) == DoubleDivInt(DoubleOfInt(duration), 60)

\* a number that is given and is not 0
Truthy(n) == n # NULL /\ n # Some(0)

\* createStudySession: the rows stay in the table, a deleted one as NULL, so
\* that ids are not given twice
createStudySession(userId, subjectId, startTime, endTime) ==
  /\ Len(studySession) < MaxStudySessions
  /\ IF ~subjectFound(userId, subjectId)
       THEN /\ ret' = Some("Subject not found")
            /\ UNCHANGED studyVars
     ELSE LET duration == IF endTime # NULL
                            THEN Some(Round(Val(endTime) - startTime))
                          ELSE NULL
          IN /\ studySession' =
                  Append(studySession,
                         Some([userId |-> userId, subjectId |-> subjectId,
                               startTime |-> startTime, endTime |-> endTime,
                               duration |-> duration]))
             /\ subject' = IF Truthy(duration)
                             THEN updateSubjectHours(subject, subjectId,
                                                     hoursOf(Val(duration)))
                           ELSE subject
             /\ ret' = Some("created")
  /\ UNCHANGED <<now, result, args, streakEntry, learningStreak, quizSessions>>
  /\ UNCHANGED sessionVars
  /\ UNCHANGED habitVars

\* findFirst({ where: { id: sessionId, userId } })
studySessionFound(userId, sessionId) ==
  /\ sessionId \in DOMAIN studySession
  /\ studySession[sessionId] # NULL
  /\ Val(studySession[sessionId]).userId = userId

\* sessions are updated while no subject has more than MaxHours hours
HoursInBound ==
  \A b \in DOMAIN subject :
    ~DoubleGreaterInt(subject[b].totalHoursStudied, MaxHours)

updateStudySession(userId, sessionId, endTime) ==
  /\ HoursInBound
  /\ IF ~studySessionFound(userId, sessionId)
       THEN /\ ret' = Some("Study session not found")
            /\ UNCHANGED studyVars
     ELSE LET session == Val(studySession[sessionId])
              duration == IF endTime # NULL
                            THEN Some(Round(Val(endTime) - session.startTime))
                          ELSE NULL
              oldHours == IF Truthy(session.duration)
                            THEN hoursOf(Val(session.duration)) ELSE DoubleZero
          IN /\ studySession' =
                  [studySession EXCEPT ![sessionId] =
                     IF endTime # NULL
                       THEN Some([session EXCEPT !.endTime = endTime,
                                                 !.duration = duration])
                     ELSE Some(session)]
             /\ subject' =
                  IF Truthy(duration) /\ duration # session.duration
                    THEN updateSubjectHours(subject, session.subjectId,
                           DoubleSub(hoursOf(Val(duration)), oldHours))
                  ELSE subject
             /\ ret' = Some("updated")
  /\ UNCHANGED <<now, result, args, streakEntry, learningStreak, quizSessions>>
  /\ UNCHANGED sessionVars
  /\ UNCHANGED habitVars

deleteStudySession(userId, sessionId) ==
  /\ IF ~studySessionFound(userId, sessionId)
       THEN /\ ret' = Some("Study session not found")
            /\ UNCHANGED studyVars
     ELSE LET session == Val(studySession[sessionId])
          IN /\ studySession' = [studySession EXCEPT ![sessionId] = NULL]
             /\ subject' =
                  IF Truthy(session.duration)
                    THEN updateSubjectHours(subject, session.subjectId,
                           DoubleNeg(hoursOf(Val(session.duration))))
                  ELSE subject
             /\ ret' = Some("Study session deleted successfully")
  /\ UNCHANGED <<now, result, args, streakEntry, learningStreak, quizSessions>>
  /\ UNCHANGED sessionVars
  /\ UNCHANGED habitVars

\* ------------------------------------------------------- quiz sessions
\* the questions prisma.examQuestion.findMany returns: id and correctAnswer
QuizIds == {"quiz_1"}
QuestionBank ==
  << [id |-> "x1", correctAnswer |-> Some("a")],
     [id |-> "x2", correctAnswer |-> NULL] >>
QuestionIds == {QuestionBank[i].id : i \in DOMAIN QuestionBank}
AnswerTexts == {" A", "b"}
QuizCounts == 1 .. Len(QuestionBank) + 1

\* s.toLowerCase().trim() on the texts in use
lowerTrim(text) == IF text = " A" THEN "a" ELSE text

\* the sequences of count questions a shuffle of the bank can start with
selections(count) ==
  {q \in [1 .. count -> DOMAIN QuestionBank] :
     \A i, j \in 1 .. count : i # j => q[i] # q[j]}

quizResponse(status, message, score) ==
  [status |-> status, message |-> message, score |-> score]

\* generateQuiz: quizSessions.set(sessionId, quizSession), sessionId new
generateQuiz(sessionId, count) ==
  /\ sessionId \notin DOMAIN quizSessions
  /\ IF Len(QuestionBank) < count
       THEN /\ ret' = Some(quizResponse(400, "Not enough questions", NULL))
            /\ UNCHANGED quizSessions
     ELSE \E q \in selections(count) :
            /\ quizSessions' =
                 [id \in DOMAIN quizSessions \cup {sessionId} |->
                    IF id = sessionId
                      THEN [questions |-> [i \in 1 .. count |-> QuestionBank[q[i]]],
                            userAnswers |-> [x \in QuestionIds |-> NULL],
                            totalQuestions |-> count,
                            startTime |-> now,
                            endTime |-> NULL, duration |-> NULL,
                            correctAnswers |-> NULL, score |-> NULL]
                      ELSE quizSessions[id]]
            /\ ret' = Some(quizResponse(200, "generated", NULL))
  /\ UNCHANGED <<now, result, args, streakEntry, learningStreak, studySession,
                 subject>>
  /\ UNCHANGED sessionVars
  /\ UNCHANGED habitVars

\* answers[question.id] || "" compared with the correct answer
isCorrect(question, answers) ==
  LET userAnswer == IF answers[question.id] = NULL THEN ""
                    ELSE Val(answers[question.id])
  IN IF question.correctAnswer # NULL /\ Val(question.correctAnswer) # ""
       THEN lowerTrim(userAnswer) = lowerTrim(Val(question.correctAnswer))
     ELSE FALSE

countCorrect(questions, answers) ==
  Cardinality({i \in DOMAIN questions : isCorrect(questions[i], answers)})

\* Math.round((correctAnswers / totalQuestions) * 100)
scoreOf(correctAnswers, totalQuestions) ==
  MathRound(DoubleMulInt(DoubleDiv(DoubleOfInt(correctAnswers),
                                   DoubleOfInt(totalQuestions)), 100))

\* Math.floor((endTime - startTime) / 1000): whole seconds
secondsBetween(t1, t2) == ((t2 - t1) * 60) \div TicksPerMinute

\* submitQuiz storing the answers whether or not the quiz has its endTime
submitQuiz_again(sessionId, answers) ==
  /\ IF sessionId \notin DOMAIN quizSessions
       THEN /\ ret' = Some(quizResponse(404, "Quiz session not found or expired",
                                        NULL))
            /\ UNCHANGED quizSessions
     ELSE LET session == quizSessions[sessionId]
              correctAnswers == countCorrect(session.questions, answers)
              score == scoreOf(correctAnswers, session.totalQuestions)
          IN /\ quizSessions' =
                  [quizSessions EXCEPT ![sessionId] =
                     [session EXCEPT
                        !.userAnswers = answers,
                        !.endTime = Some(now),
                        !.duration = Some(secondsBetween(session.startTime, now)),
                        !.correctAnswers = Some(correctAnswers),
                        !.score = Some(score)]]
             /\ ret' = Some(quizResponse(200, "submitted", Some(score)))
  /\ UNCHANGED <<now, result, args, streakEntry, learningStreak, studySession,
                 subject>>
  /\ UNCHANGED sessionVars
  /\ UNCHANGED habitVars

submitQuiz(sessionId, answers) ==
  /\ IF sessionId \notin DOMAIN quizSessions
       THEN /\ ret' = Some(quizResponse(404, "Quiz session not found or expired",
                                        NULL))
            /\ UNCHANGED quizSessions
     ELSE IF quizSessions[sessionId].endTime # NULL
       THEN /\ ret' = Some(quizResponse(400, "Quiz already submitted", NULL))
            /\ UNCHANGED quizSessions
     ELSE LET session == quizSessions[sessionId]
              correctAnswers == countCorrect(session.questions, answers)
              score == scoreOf(correctAnswers, session.totalQuestions)
          IN /\ quizSessions' =
                  [quizSessions EXCEPT ![sessionId] =
                     [session EXCEPT
                        !.userAnswers = answers,
                        !.endTime = Some(now),
                        !.duration = Some(secondsBetween(session.startTime, now)),
                        !.correctAnswers = Some(correctAnswers),
                        !.score = Some(score)]]
             /\ ret' = Some(quizResponse(200, "submitted", Some(score)))
  /\ UNCHANGED <<now, result, args, streakEntry, learningStreak, studySession,
                 subject>>
  /\ UNCHANGED sessionVars
  /\ UNCHANGED habitVars

getQuizResult(sessionId) ==
  /\ ret' =
       IF sessionId \notin DOMAIN quizSessions
         THEN Some(quizResponse(404, "Quiz session not found or expired", NULL))
       ELSE IF quizSessions[sessionId].endTime = NULL
         THEN Some(quizResponse(400, "Quiz not yet submitted", NULL))
       ELSE Some(quizResponse(200, "result", quizSessions[sessionId].score))
  /\ UNCHANGED <<now, result, args, streakEntry, learningStreak, studySession,
                 subject, quizSessions>>
  /\ UNCHANGED sessionVars
  /\ UNCHANGED habitVars

\* ------------------------------------------------------- specifications
Next ==
  \/ Tick
  \/ \E u \in Users, s \in SessionIds : createFocusSession(u, s)
  \/ \E u \in Users, s \in SessionIds : startFocusSession(u, s)
  \/ \E u \in Users, s \in SessionIds : pauseFocusSession(u, s)
  \/ \E u \in Users, s \in SessionIds : resumeFocusSession(u, s)
  \/ \E u \in Users, s \in SessionIds : completeFocusSession(u, s)
  \/ \E u \in Users, s \in SessionIds : cancelFocusSession(u, s)

Spec == Init /\ [][Next]_vars

\* the PATCH route on sessions that are created, started and completed (a
\* resume after a PATCH that rewinds pausedAt adds pause minutes without bound)
NextPatch ==
  \/ Tick
  \/ \E u \in Users, s \in SessionIds : createFocusSession(u, s)
  \/ \E u \in Users, s \in SessionIds : startFocusSession(u, s)
  \/ \E u \in Users, s \in SessionIds : completeFocusSession(u, s)
  \/ \E u \in Users, s \in SessionIds, body \in updateFocusSessionSchema :
       updateFocusSessionController(u, s, body)

SpecPatch == Init /\ [][NextPatch]_vars

\* pauseFocusSession calls that overlap in time
NextConcurrent ==
  \/ Tick
  \/ \E u \in Users, s \in SessionIds : createFocusSession(u, s)
  \/ \E p \in Procs, u \in Users, s \in SessionIds : pauseRead(p, u, s)
  \/ \E p \in Procs : pauseWrite(p)

SpecConcurrent == Init /\ [][NextConcurrent]_vars

\* the habit operations, one call at a time
NextHabit ==
  \/ Tick
  \/ \E u \in Users, h \in HabitIds, n \in TargetDaysInputs :
       createFocusHabit(u, h, n)
  \/ \E u \in Loggers, h \in HabitIds, d \in Opt(LogDates), c \in BOOLEAN :
       logHabitSession(u, h, d, c, 1)
  \/ \E u \in Users, h \in HabitIds : getHabitProgress(u, h)

SpecHabit == Init /\ [][NextHabit]_vars

\* the focus session routes next to the habit routes: completing sessions of
\* users who have habits
NextLinked ==
  \/ Tick
  \/ \E u \in Users, s \in SessionIds : createFocusSession(u, s)
  \/ \E u \in Users, s \in SessionIds : startFocusSession(u, s)
  \/ \E u \in Users, s \in SessionIds : completeFocusSession(u, s)
  \/ \E u \in Users, h \in HabitIds, n \in TargetDaysInputs : createFocusHabit(u, h, n)
SpecLinked == Init /\ [][NextLinked]_vars

\* one habit and two request handlers, each taking one logHabitSession call
\* after the other; the calls of the two interleave at their awaits
NextHabitConcurrent ==
  \/ \E u \in Users, h \in HabitIds, n \in TargetDaysInputs : createFocusHabit(u, h, n)
  \/ \E p \in Procs, u \in Loggers, h \in HabitIds, d \in Opt(LogDates), c \in BOOLEAN :
       logFind(p, u, h, d, c, 1)
  \/ \E p \in Procs : logWrite(p)
  \/ \E p \in Procs : logProgressRead(p)
  \/ \E p \in Procs : logProgressWrite(p)
SpecHabitConcurrent == Init /\ [][NextHabitConcurrent]_vars

\* analyzeOptimalTimes applied to the sessions drawn
NextOptimalTimes == analyzeOptimalTimesCall
SpecOptimalTimes == InitOptimalTimes /\ [][NextOptimalTimes]_vars

\* the trend analysis applied to the points drawn
NextTrend == getLearningCurve
SpecTrend == InitTrend /\ [][NextTrend]_vars

\* the learning streak and its entries
NextStreak ==
  \/ createLearningStreak
  \/ \E u \in Users, d \in StreakDays, v \in StreakValues, g \in BOOLEAN :
       addStreakEntry(u, d, v, g)
SpecStreak == Init /\ [][NextStreak]_vars

\* the durations of new habits, for the habit data drawn
NextMethods == createFocusHabitDurations
SpecMethods == InitMethods /\ [][NextMethods]_vars

\* the time-tracking report for the ranges and sessions drawn
NextTimeTracking == getTimeTracking
SpecTimeTracking == InitTimeTracking /\ [][NextTimeTracking]_vars

\* the study sessions of a subject and the hours the subject keeps
NextStudy ==
  \/ \E b \in SubjectIds : createSubject(SubjectOwner, b)
  \/ \E u \in Users, b \in SubjectIds, t \in StudyStartTimes,
        e \in Opt(StudyEndTimes) : createStudySession(u, b, t, e)
  \/ \E u \in Users, i \in 1 .. MaxStudySessions,
        e \in Opt(StudyUpdateEndTimes) : updateStudySession(u, i, e)
  \/ \E u \in Users, i \in 1 .. MaxStudySessions : deleteStudySession(u, i)
SpecStudy == Init /\ [][NextStudy]_vars

\* the quiz routes
NextQuiz ==
  \/ Tick
  \/ \E q \in QuizIds, n \in QuizCounts : generateQuiz(q, n)
  \/ \E q \in QuizIds, a \in [QuestionIds -> Opt(AnswerTexts)] : submitQuiz(q, a)
  \/ \E q \in QuizIds : getQuizResult(q)
SpecQuiz == Init /\ [][NextQuiz]_vars

\* ================================================================ claims
Minutes(m) == m * TicksPerMinute
Terminal == {"COMPLETED", "CANCELLED"}
Row(s) == focusSession[s]
Owned(u, s) == FindFirst(focusSession, u, s) # NULL

\* C1: once a session is COMPLETED or CANCELLED, no call of the five
\* operations changes its status, endTime or actualDuration.
C1_TerminalIsFinal ==
  [][\A s \in DOMAIN focusSession :
       Row(s).status \in Terminal =>
         /\ focusSession'[s].status = Row(s).status
         /\ focusSession'[s].endTime = Row(s).endTime
         /\ focusSession'[s].actualDuration = Row(s).actualDuration]_vars

\* C2: completing a started session that has not ended stores
\* actualDuration = round(endTime - startTime) - pauseDuration, with the
\* endTime and the pauseDuration stored at completion.
C2_PauseAccounting ==
  [][\A u \in Users, s \in SessionIds :
       (/\ completeFocusSession(u, s)
        /\ Owned(u, s)
        /\ Row(s).status \notin Terminal
        /\ Row(s).startTime # NULL)
       => /\ focusSession'[s].status = "COMPLETED"
          /\ focusSession'[s].endTime = Some(now)
          /\ focusSession'[s].actualDuration =
               Some(Round(Val(focusSession'[s].endTime) - Val(focusSession'[s].startTime))
                    - PauseDurationOrZero(focusSession'[s]))]_vars

\* a session completed after two or more pauses that left pause minutes
C2_Witness ==
  \E s \in DOMAIN focusSession :
    /\ Row(s).status = "COMPLETED"
    /\ Row(s).startTime # NULL
    /\ Row(s).endTime # NULL
    /\ hist[s].pauses = 2
    /\ PauseDurationOrZero(Row(s)) >= 2
    /\ Row(s).actualDuration =
         Some(Round(Val(Row(s).endTime) - Val(Row(s).startTime))
              - PauseDurationOrZero(Row(s)))

\* C3: pause on a PAUSED, COMPLETED or CANCELLED session, resume on a session
\* that is not PAUSED and start on a COMPLETED or CANCELLED session answer 400
\* and leave the stored session as it was.
C3_IllegalTransitionsRejected ==
  [][\A u \in Users, s \in SessionIds :
       Owned(u, s) =>
         /\ (pauseFocusSession(u, s) /\ Row(s).status # "ACTIVE")
              => (result' = 400 /\ focusSession' = focusSession)
         /\ (resumeFocusSession(u, s) /\ Row(s).status # "PAUSED")
              => (result' = 400 /\ focusSession' = focusSession)
         /\ (startFocusSession(u, s) /\ Row(s).status \in Terminal)
              => (result' = 400 /\ focusSession' = focusSession)]_vars

\* a rejected call on a paused session that has pause minutes already
C3_Witness ==
  /\ result = 400
  /\ \E s \in DOMAIN focusSession :
       Row(s).status = "PAUSED" /\ PauseDurationOrZero(Row(s)) > 0

\* C4: of two pauseFocusSession calls by the owner that have both answered,
\* exactly one succeeded (200) and the other failed with 400.
C4_ConcurrentPauseOnce ==
  (\A p \in Procs : procs[p].pc = "done" /\ procs[p].code # 404)
    => /\ Cardinality({p \in Procs : procs[p].code = 200}) = 1
       /\ Cardinality({p \in Procs : procs[p].code = 400}) = 1

\* C5: completing a PAUSED session first adds the open pause, rounded as in
\* resume, to the pause minutes and computes actualDuration from that total.
C5_CompleteClosesOpenPause ==
  [][\A u \in Users, s \in SessionIds :
       (/\ completeFocusSession(u, s)
        /\ Owned(u, s)
        /\ Row(s).status = "PAUSED"
        /\ Row(s).startTime # NULL
        /\ Row(s).pausedAt # NULL)
       => LET total == PauseDurationOrZero(Row(s))
                         + Round(now - Val(Row(s).pausedAt))
          IN /\ PauseDurationOrZero(focusSession'[s]) = total
             /\ focusSession'[s].actualDuration =
                  Some(Round(now - Val(Row(s).startTime)) - total)]_vars

\* C6: cancelling an ACTIVE or PAUSED session sets status CANCELLED and
\* endTime and stores actualDuration = round(endTime - startTime) - pause
\* minutes.
C6_CancelComputesDuration ==
  [][\A u \in Users, s \in SessionIds :
       (/\ cancelFocusSession(u, s)
        /\ Owned(u, s)
        /\ Row(s).status \notin Terminal
        /\ Row(s).startTime # NULL)
       => /\ focusSession'[s].status = "CANCELLED"
          /\ focusSession'[s].endTime = Some(now)
          /\ focusSession'[s].actualDuration =
               Some(Round(now - Val(Row(s).startTime))
                    - PauseDurationOrZero(focusSession'[s]))]_vars

\* C7: resume on a PAUSED session adds round(now - pausedAt) to the pause
\* minutes, clears pausedAt and sets ACTIVE; a session started at T, paused at
\* T+10, resumed at T+15 and completed at T+20 minutes ends with pause
\* minutes 5 and actualDuration 15.
C7_ResumeAccounting ==
  [][\A u \in Users, s \in SessionIds :
       Owned(u, s) =>
         /\ (resumeFocusSession(u, s) /\ Row(s).status = "PAUSED"
               /\ Row(s).pausedAt # NULL)
              => /\ focusSession'[s].pauseDuration =
                      Some(PauseDurationOrZero(Row(s))
                           + Round(now - Val(Row(s).pausedAt)))
                 /\ focusSession'[s].pausedAt = NULL
                 /\ focusSession'[s].status = "ACTIVE"
         \* scenario A, the resume at T+15 of the pause at T+10
         /\ (resumeFocusSession(u, s) /\ Row(s).status = "PAUSED"
               /\ Row(s).startTime # NULL
               /\ hist[s].pauses = 1
               /\ Row(s).pausedAt = Some(Val(Row(s).startTime) + Minutes(10))
               /\ now = Val(Row(s).startTime) + Minutes(15))
              => focusSession'[s].pauseDuration = Some(5)
         \* scenario A, the completion at T+20
         /\ (completeFocusSession(u, s) /\ Row(s).status = "ACTIVE"
               /\ Row(s).startTime # NULL
               /\ hist[s].pauses = 1
               /\ hist[s].pausedTicks = Minutes(5)
               /\ Row(s).pauseDuration = Some(5)
               /\ now = Val(Row(s).startTime) + Minutes(20))
              => /\ focusSession'[s].pauseDuration = Some(5)
                 /\ focusSession'[s].actualDuration = Some(15)]_vars

\* scenario A has run: one pause of five minutes, completed twenty minutes
\* after the start
C7_Witness ==
  \E s \in DOMAIN focusSession :
    /\ Row(s).status = "COMPLETED"
    /\ hist[s].pauses = 1
    /\ hist[s].pausedTicks = Minutes(5)
    /\ Row(s).startTime # NULL
    /\ Row(s).endTime = Some(Val(Row(s).startTime) + Minutes(20))
    /\ Row(s).pauseDuration = Some(5)
    /\ Row(s).actualDuration = Some(15)

\* C8: when a started session that was paused once is active again, by resume
\* or by start, and is completed, the time it spent paused is excluded from
\* actualDuration.
C8_StartAccountsForPause ==
  [][\A u \in Users, s \in SessionIds :
       (/\ completeFocusSession(u, s)
        /\ Owned(u, s)
        /\ Row(s).status = "ACTIVE"
        /\ Row(s).startTime # NULL
        /\ hist[s].pauses = 1
        /\ hist[s].pausedTicks > 0)
       => focusSession'[s].actualDuration =
            Some(Round(now - Val(Row(s).startTime))
                 - Round(hist[s].pausedTicks))]_vars

\* C9: no step of the five operations lowers a session's pause minutes.
C9_PauseDurationMonotone ==
  [][\A s \in DOMAIN focusSession :
       PauseDurationOrZero(focusSession'[s]) >= PauseDurationOrZero(Row(s))]_vars

\* a session resumed for the second time, with pause minutes from both pauses
C9_Witness ==
  \E s \in DOMAIN focusSession :
    /\ Row(s).status = "ACTIVE"
    /\ hist[s].pauses = 2
    /\ PauseDurationOrZero(Row(s)) >= 6

\* C10: a PATCH of a session changes neither its status, pausedAt, pause
\* minutes nor endTime.
C10_OnlyFiveOperationsMutate ==
  [][\A u \in Users, s \in SessionIds, body \in updateFocusSessionSchema :
       (updateFocusSessionController(u, s, body) /\ Owned(u, s))
       => /\ focusSession'[s].status = Row(s).status
          /\ focusSession'[s].pausedAt = Row(s).pausedAt
          /\ focusSession'[s].pauseDuration = Row(s).pauseDuration
          /\ focusSession'[s].endTime = Row(s).endTime]_vars

\* ------------------------------------------------------ habit claims
\* C11: in every state reached through create, start, pause, resume, complete
\* and cancel, pausedAt is set exactly when the status is PAUSED.
C11_PausedAtIffPaused ==
  \A s \in DOMAIN focusSession :
    (Row(s).pausedAt # NULL) <=> (Row(s).status = "PAUSED")

\* C12: actualDuration is unset while a session is ACTIVE or PAUSED, and
\* every COMPLETED session has endTime and actualDuration set, also one that
\* was completed without startFocusSession.
C12_DurationDefinedIffCompleted ==
  \A s \in DOMAIN focusSession :
    /\ Row(s).status \in {"ACTIVE", "PAUSED"} => Row(s).actualDuration = NULL
    /\ Row(s).status = "COMPLETED"
         => Row(s).endTime # NULL /\ Row(s).actualDuration # NULL

\* a session and a habit of the same user: the rows carry no other link
Linked(s, h) == focusSession[s].userId = focusHabit[h].userId

\* C13: when completeFocusSession completes a session linked to a habit, the
\* habit has a completed entry for that day afterwards and its completedDays,
\* currentStreak and longestStreak count it.
C13_CompleteUpdatesHabit ==
  [][\A u \in Users, s \in DOMAIN focusSession, h \in DOMAIN focusHabit :
       /\ completeFocusSession(u, s)
       /\ Linked(s, h)
       /\ Row(s).status \in {"ACTIVE", "PAUSED"}
       /\ result' = 200
       => /\ \E r \in BagToSet(habitSessions(focusHabitSession', h)) :
               r.date = StartOfDay(now) /\ r.completed
          /\ focusHabit'[h].completedDays >= 1
          /\ focusHabit'[h].currentStreak >= 1
          /\ focusHabit'[h].longestStreak >= 1]_vars

HabitRows(h) == habitSessions(focusHabitSession, h)
DayRows(h, date) ==
  {r \in BagToSet(focusHabitSession) : r.habitId = h /\ r.date = date}

EntriesOfDay(tbl, h, date) ==
  BagCardinality([r \in {x \in BagToSet(tbl) : x.habitId = h /\ x.date = date}
                    |-> tbl[r]])

\* C14: after any sequence of logHabitSession calls the stored longestStreak
\* of a habit is at least its stored currentStreak.
C14_LongestAtLeastCurrent ==
  \A h \in DOMAIN focusHabit :
    focusHabit[h].longestStreak >= focusHabit[h].currentStreak

\* a day was logged again as not completed: the current streak fell below
\* the longest
C14_Witness ==
  \E h \in DOMAIN focusHabit :
    /\ focusHabit[h].longestStreak >= 2
    /\ focusHabit[h].currentStreak = 0
    /\ BagCardinality(HabitRows(h)) >= 2

\* the outcome of one more logHabitSession call for the day and with the
\* completed flag of the stored entry r, sent for the time of day o
LoggedAgain(u, h, r, o) ==
  LET sessionDate == sessionDateOf(Some(r.date + o), now)
      written == writeHabitSession(focusHabit, focusHabitSession,
                   FindUniqueSession(focusHabitSession, h, sessionDate),
                   u, h, sessionDate, r.completed, r.completedSessions)
  IN [error |-> written.error,
      table |-> written.table,
      habit |-> updateHabitProgress(focusHabit, written.table, h, now)[h]]

\* C15: logging a day again with the completed flag it already has succeeds,
\* leaves one entry for the day and leaves currentStreak, longestStreak and
\* completedDays as the first call left them.
C15_LogIsIdempotent ==
  \A h \in DOMAIN focusHabit, u \in Loggers, o \in DayOffsets :
    \A r \in BagToSet(HabitRows(h)) :
      LET again == LoggedAgain(u, h, r, o)
      IN /\ again.error = "none"
         /\ BagCardinality(again.table) = BagCardinality(focusHabitSession)
         /\ EntriesOfDay(again.table, h, r.date) = 1
         /\ again.habit.currentStreak = focusHabit[h].currentStreak
         /\ again.habit.longestStreak = focusHabit[h].longestStreak
         /\ again.habit.completedDays = focusHabit[h].completedDays

\* two days are logged as completed, one entry each
C15_Witness ==
  \E h \in DOMAIN focusHabit :
    /\ result = 201
    /\ BagCardinality(HabitRows(h)) = 2
    /\ focusHabit[h].completedDays = 2
    /\ focusHabit[h].currentStreak = 2

\* the completed entries counted from the latest entry while each is exactly
\* one calendar day before the entry counted before it
RECURSIVE ConsecutiveRun(_, _)
ConsecutiveRun(sorted, next) ==
  IF sorted = <<>> THEN 0
  ELSE IF ~Head(sorted).completed THEN 0
  ELSE IF next # NULL /\ Head(sorted).date # Val(next) - TicksPerDay THEN 0
  ELSE 1 + ConsecutiveRun(Tail(sorted), Some(Head(sorted).date))

\* C16: currentStreak counts the completed entries on consecutive calendar
\* days from the latest entry; a day without entry ends the count.
C16_GapBreaksStreak ==
  \A h \in DOMAIN focusHabit :
    focusHabit[h].currentStreak
      = ConsecutiveRun(sortedSessions(HabitRows(h)), NULL)

\* the longest run of completed entries on consecutive calendar days
CompletedDates(h) ==
  {r.date : r \in {x \in BagToSet(focusHabitSession) :
                     x.habitId = h /\ x.completed}}
IsRun(h, first, n) ==
  \A k \in 0 .. n - 1 : first + k * TicksPerDay \in CompletedDates(h)
MaxRun(h) ==
  CHOOSE n \in 0 .. Cardinality(CompletedDates(h)) :
    /\ n = 0 \/ \E first \in CompletedDates(h) : IsRun(h, first, n)
    /\ \A m \in n + 1 .. Cardinality(CompletedDates(h)) :
         ~ \E first \in CompletedDates(h) : IsRun(h, first, m)

\* C17: longestStreak is the length of the longest run of completed entries
\* on consecutive calendar days in the stored history, in whatever order the
\* days were logged.
C17_LongestIsMaxRun ==
  \A h \in DOMAIN focusHabit : focusHabit[h].longestStreak = MaxRun(h)

\* C18: completedDate, once set, is not changed by later calls, and a habit
\* with completedDate set has isActive = false.
C18_CompletedOnce ==
  [][/\ \A h \in DOMAIN focusHabit :
          focusHabit[h].completedDate # NULL
            => focusHabit'[h].completedDate = focusHabit[h].completedDate
     /\ \A h \in DOMAIN focusHabit' :
          focusHabit'[h].completedDate # NULL => ~focusHabit'[h].isActive]_vars

\* C19: whatever the order and interleaving of logHabitSession calls, a habit
\* has at most one entry per calendar day, and no call fails on the entry of
\* its day being there already: it updates that entry.
C19_UpsertNeverFails ==
  /\ \A h \in HabitIds, d \in 0 .. MaxDay :
       EntriesOfDay(focusHabitSession, h, d * TicksPerDay) <= 1
  /\ \A p \in Procs :
       logs[p].pc = "done" => logs[p].error \notin {"P2002", "P2025"}

\* both handlers have finished their first call without error, the two
\* calls being for habit h and for different days
BothLogged(h) ==
  /\ \A p \in Procs :
       /\ logs[p].pc = "done" /\ logs[p].calls = 1 /\ logs[p].error = "none"
       /\ Val(logs[p].call).habitId = h
  /\ \A p, q \in Procs :
       p # q => Val(logs[p].call).sessionDate # Val(logs[q].call).sessionDate

\* C20: after two concurrent logHabitSession calls for different days of one
\* habit have both finished, the stored completedDays, currentStreak and
\* longestStreak are those recomputed from the stored entries.
C20_NoLostUpdate ==
  \A h \in DOMAIN focusHabit :
    BothLogged(h)
      => LET recomputed == habitProgressData(focusHabit[h], HabitRows(h), now)
         IN /\ focusHabit[h].completedDays = recomputed.completedDays
            /\ focusHabit[h].currentStreak = recomputed.currentStreak
            /\ focusHabit[h].longestStreak = recomputed.longestStreak

\* C21: logging an entry for an unknown habit, or reading the progress of
\* one, is answered with the NotFound status 404.
C21_NotFoundSurfaced ==
  [][/\ \A u \in Users, h \in HabitIds :
          getHabitProgress(u, h) /\ h \notin DOMAIN focusHabit
            => result' = 404
     /\ \A u \in Loggers, h \in HabitIds, d \in Opt(LogDates), c \in BOOLEAN :
          logHabitSession(u, h, d, c, 1) /\ h \notin DOMAIN focusHabit
            => result' = 404]_vars

\* C22: a logHabitSession call by a user who does not own the habit fails
\* and leaves the habit's entries and statistics as they were.
C22_OnlyOwnerLogs ==
  [][\A u \in Loggers, h \in DOMAIN focusHabit, d \in Opt(LogDates), c \in BOOLEAN :
       logHabitSession(u, h, d, c, 1) /\ focusHabit[h].userId # u
         => /\ result' # 201
            /\ UNCHANGED <<focusHabit, focusHabitSession>>]_vars

\* the rated sessions of the arguments that started in the hour of the day:
\* their minutes, and their minutes weighted by the rating
StudyIn(dayOfWeek, hour) ==
  {i \in DOMAIN args.studySessions :
     LET x == args.studySessions[i]
     IN /\ x.duration # NULL /\ x.productivity # NULL
        /\ weekdayOf(x.startTime) = dayOfWeek /\ getHours(x.startTime) = hour}
FocusIn(dayOfWeek, hour) ==
  {i \in DOMAIN args.focusSessions :
     LET x == args.focusSessions[i]
     IN /\ x.actualDuration # NULL /\ x.effectiveness # NULL
        /\ IF x.startTime = NULL THEN dayOfWeek = "Unknown" /\ hour = 0
           ELSE /\ weekdayOf(Val(x.startTime)) = dayOfWeek
                /\ getHours(Val(x.startTime)) = hour}
RECURSIVE SumOver(_, _)
SumOver(S, f) ==
  IF S = {} THEN 0
  ELSE LET i == CHOOSE x \in S : TRUE IN f[i] + SumOver(S \ {i}, f)
BucketMinutes(dayOfWeek, hour) ==
  SumOver(StudyIn(dayOfWeek, hour),
          [i \in DOMAIN args.studySessions |->
             Val(args.studySessions[i].duration)])
  + SumOver(FocusIn(dayOfWeek, hour),
            [i \in DOMAIN args.focusSessions |->
               Val(args.focusSessions[i].actualDuration)])
BucketRatedMinutes(dayOfWeek, hour) ==
  SumOver(StudyIn(dayOfWeek, hour),
          [i \in DOMAIN args.studySessions |->
             Val(args.studySessions[i].duration)
               * Val(args.studySessions[i].productivity)])
  + SumOver(FocusIn(dayOfWeek, hour),
            [i \in DOMAIN args.focusSessions |->
               Val(args.focusSessions[i].actualDuration)
                 * Val(args.focusSessions[i].effectiveness)])

\* C23: analyzeOptimalTimes returns at most 10 buckets, by efficiency
\* descending, and each of them has at least 2 sessions and an efficiency
\* (rated minutes / 10 over minutes) strictly above 60 %.
C23_OnlyReliableBuckets ==
  ret # NULL =>
    LET out == Val(ret)
    IN /\ Len(out) <= MaxOptimalTimes
       /\ \A i, j \in DOMAIN out : i < j => out[i].efficiency >= out[j].efficiency
       /\ \A i \in DOMAIN out :
            LET d == out[i].dayOfWeek
                h == out[i].hour
            IN /\ Cardinality(StudyIn(d, h)) + Cardinality(FocusIn(d, h))
                    >= MinBucketSessions
               /\ 10 * BucketRatedMinutes(d, h)
                    > MinEfficiency * BucketMinutes(d, h)

\* C24: for performance points with scores in 0..100 the confidence that
\* analyzeTrend returns is in [0, 95], and in [30, 95] when there are 3 or
\* more points, and the projectedPerformance that
\* calculateProjectedPerformance returns is in [0, 100].
C24_TrendBounds ==
  ret # NULL =>
    /\ Val(ret).trendAnalysis.confidence \in 0 .. MaxConfidence
    /\ Len(args.points) >= 3 =>
         Val(ret).trendAnalysis.confidence >= MinConfidence
    /\ ~Val(ret).projectedPerformance.neg
    /\ ~DoubleGreaterInt(Val(ret).projectedPerformance, 100)
C24_Witness ==
  /\ ret # NULL
  /\ Len(args.points) >= 3
  /\ Val(ret).trendAnalysis.confidence > MinConfidence
  /\ Val(ret).trendAnalysis.confidence < MaxConfidence
  /\ Val(ret).projectedPerformance.m # <<>>
  /\ DoubleLess(Val(ret).projectedPerformance, DoubleOf(100))

\* the length of the leading run: entries counted from the most recent one
\* while each has met its goal and is dated one day before the one counted
\* before it
RECURSIVE LeadingRun(_, _, _)
LeadingRun(entries, dates, i) ==
  IF i > Len(dates) THEN 0
  ELSE IF ~entries[dates[i]].goalMet THEN 0
  ELSE IF i > 1 /\ dates[i - 1] - dates[i] # 1 THEN 0
  ELSE 1 + LeadingRun(entries, dates, i + 1)

\* C25: the currentStreak that updateStreakStatistics stores is the length of
\* the leading run only: the scan from the most recent entry stops at the
\* first gap or unmet day, and older entries never increase it.
C25_CurrentIsLeadingRun ==
  (learningStreak # NULL /\ DOMAIN streakEntry # {}) =>
    Val(learningStreak).currentStreak =
      LeadingRun(streakEntry, datesDesc(DOMAIN streakEntry), 1)

\* the durations documented for the modes: the comments of enum FocusMode
\* and, for MARATHON, the case of getMethodConfiguration
DocumentedDurations ==
  [mode \in {"POMODORO", "DEEP_WORK", "MARATHON", "POMODORO_CLASSIC",
             "POMODORO_EXTENDED", "DEEP_WORK_90", "DEEP_WORK_120",
             "RULE_52_17", "RULE_90_20"} |->
     CASE mode \in {"POMODORO", "POMODORO_CLASSIC"} -> durations(25, 5)
       [] mode \in {"DEEP_WORK", "DEEP_WORK_90", "RULE_90_20"} -> durations(90, 20)
       [] mode \in {"MARATHON", "DEEP_WORK_120"} -> durations(120, 30)
       [] mode = "POMODORO_EXTENDED" -> durations(50, 10)
       [] mode = "RULE_52_17" -> durations(52, 17)]

\* C26: the durations createFocusHabit applies when the caller gives none are
\* the durations documented for the mode: 25/5 for POMODORO, 90/20 for
\* DEEP_WORK, 120/30 for MARATHON, 50/10 for POMODORO_EXTENDED, 90/20 for
\* DEEP_WORK_90, 52/17 for RULE_52_17.
C26_DefaultsAsDocumented ==
  ( /\ ret # NULL
    /\ args.focusDuration = NULL
    /\ args.breakDuration = NULL
    /\ args.focusMode \in DOMAIN DocumentedDurations ) =>
    Val(ret) = DocumentedDurations[args.focusMode]

\* the days of the report in which a session starting at t is counted
DaysCounting(t) ==
  {i \in DOMAIN Val(ret).daily :
     /\ t >= Val(ret).daily[i].date
     /\ t < Val(ret).daily[i].date + SlotsPerDay}
RECURSIVE SumDaily(_, _)
SumDaily(daily, i) ==
  IF i = 0 THEN DoubleZero
  ELSE DoubleAdd(SumDaily(daily, i - 1), daily[i].totalHours)

\* C27: every session of the range query (startTime from start to end,
\* both included) is counted in exactly one day of the daily breakdown, and
\* the daily totalHours add up to weekly.totalHours.
C27_DailyAddsUpToTotal ==
  ret # NULL =>
    /\ \A i \in DOMAIN args.sessions :
         (args.sessions[i].startTime >= args.start
            /\ args.sessions[i].startTime <= args.end) =>
           Cardinality(DaysCounting(args.sessions[i].startTime)) = 1
    /\ SumDaily(Val(ret).daily, Len(Val(ret).daily)) = Val(ret).weekly.totalHours

\* the sum of duration / 60 over the sessions stored for a subject
RECURSIVE StoredHours(_, _)
StoredHours(subjectId, i) ==
  IF i = 0 THEN DoubleZero
  ELSE IF /\ studySession[i] # NULL
          /\ Val(studySession[i]).subjectId = subjectId
          /\ Val(studySession[i]).duration # NULL
    THEN DoubleAdd(StoredHours(subjectId, i - 1),
                   hoursOf(Val(Val(studySession[i]).duration)))
  ELSE StoredHours(subjectId, i - 1)

\* C28: after any sequence of createStudySession, updateStudySession and
\* deleteStudySession a subject's totalHoursStudied is the sum of
\* duration / 60 over the sessions stored for it, also after an update that
\* changes a duration to 0 minutes.
C28_HoursAreSumOfSessions ==
  \A b \in DOMAIN subject :
    subject[b].totalHoursStudied = StoredHours(b, Len(studySession))

\* C29: the actualDuration stored for a COMPLETED focus session is never
\* negative: over every sequence of pause and resume between start and
\* complete the pause minutes, each pause rounded to whole minutes on resume,
\* never exceed the rounded minutes from startTime to endTime.
C29_DurationNotNegative ==
  \A s \in DOMAIN focusSession :
    ( /\ focusSession[s].status = "COMPLETED"
      /\ focusSession[s].actualDuration # NULL
      /\ ~hist[s].early )
      => Val(focusSession[s].actualDuration) >= 0

\* C30: a quiz session is submitted at most once: getQuizResult fails with
\* 'Quiz not yet submitted' until submitQuiz has succeeded, a second
\* submitQuiz for the session fails with 'Quiz already submitted' and leaves
\* the stored answers, score and endTime as they are, and every later
\* getQuizResult returns the score of the first submission.
C30_SubmittedOnce ==
  [][\A q \in QuizIds :
       /\ (getQuizResult(q) /\ q \in DOMAIN quizSessions
             /\ quizSessions[q].score = NULL)
            => Val(ret').message = "Quiz not yet submitted"
       /\ (getQuizResult(q) /\ q \in DOMAIN quizSessions
             /\ quizSessions[q].score # NULL)
            => Val(ret').score = quizSessions[q].score
       /\ \A a \in [QuestionIds -> Opt(AnswerTexts)] :
            (submitQuiz(q, a) /\ q \in DOMAIN quizSessions
               /\ quizSessions[q].score # NULL)
              => /\ Val(ret').message = "Quiz already submitted"
                 /\ quizSessions' = quizSessions
       /\ (q \in DOMAIN quizSessions /\ quizSessions[q].score # NULL)
            => /\ quizSessions'[q].score = quizSessions[q].score
               /\ quizSessions'[q].userAnswers = quizSessions[q].userAnswers
               /\ quizSessions'[q].endTime = quizSessions[q].endTime]_vars
C30_Witness ==
  \E q \in DOMAIN quizSessions :
    /\ quizSessions[q].score = Some(50)
    /\ quizSessions[q].endTime # NULL
    /\ Val(quizSessions[q].endTime) < now
    /\ ret # NULL
    /\ Val(ret).message = "Quiz already submitted"

====
